---- MODULE Spec2Model ----
(***************************************************************************)
(* Model of the torii indexing engine: the engine loop (Engine::start),    *)
(* the fetch stage, the process stage, the ERC transfer handlers with      *)
(* their token registration, the task manager, the local cache and the     *)
(* write executor.                                                         *)
(***************************************************************************)
EXTENDS Integers, Sequences, FiniteSets, TLC

(***************************************************************************)
(* Bounds of the model.                                                    *)
(***************************************************************************)
\* highest block number the chain reaches
MaxBlock == 2
\* number of engine ticks explored
MaxTicks == 3
\* number of injected failures (provider / store errors) per run
MaxFailures == 1
\* greatest number of failed fetches before the first state of SpecBackoff
MaxFetchErrors == 5
\* number of add_subscriber calls, of subscription ids and of published values
MaxSubscribers == 1
MaxIds == 1
MaxEvents == 2
\* number of update_subscriber calls
MaxUpdates == 1
\* depth of the channel of a subscriber
SUBSCRIPTION_CHANNEL_SIZE == 1

(***************************************************************************)
(* Values.                                                                 *)
(***************************************************************************)
\* Option<u64>::None of Cursors.head
NoHead == -1
\* Option<Felt>::None of a transaction hash (hashes are positive)
NoTx == 0
\* Felt::ZERO, the mint / burn address of a token transfer
ZERO == "0x0"
\* addresses of the contracts on the chain
WorldAddress == "world"
Erc20Address == "erc"
OtherAddress == "other"
UdcAddress == "udc"

\* Engine.contracts: the indexed contracts, address -> ContractType
contracts == [a \in {WorldAddress, Erc20Address, UdcAddress} |->
                 IF a = WorldAddress THEN "WORLD"
                 ELSE IF a = Erc20Address THEN "ERC20" ELSE "UDC"]

\* the order in which the engine iterates its contracts map
ContractOrders ==
    { <<WorldAddress, Erc20Address, UdcAddress>>, <<Erc20Address, WorldAddress, UdcAddress>>,
      <<WorldAddress, UdcAddress, Erc20Address>>, <<Erc20Address, UdcAddress, WorldAddress>>,
      <<UdcAddress, WorldAddress, Erc20Address>>, <<UdcAddress, Erc20Address, WorldAddress>> }

\* block timestamp of a block number
Timestamp(b) == 1000 + b

(***************************************************************************)
(* Events, transactions and the chains the provider serves.                *)
(***************************************************************************)
Ev(addr, sel, k1, k2, d) ==
    [from_address |-> addr, keys |-> <<sel, k1, k2>>, data |-> d]

StoreDelRecord(model, entity) == Ev(WorldAddress, "StoreDelRecord", model, entity, <<>>)
ModelRegistered(model) == Ev(WorldAddress, "ModelRegistered", model, "", <<>>)
Transfer(from, to, amount) == Ev(Erc20Address, "Transfer", from, to, <<amount>>)
Foreign(sel) == Ev(OtherAddress, sel, "", "", <<>>)
\* the UDC event of a deployment: no key but the selector, the calldata in data
ContractDeployed(data) ==
    [from_address |-> UdcAddress, keys |-> << "ContractDeployed" >>, data |-> data]

\* the 22 felts of https://x.cartridge.gg/
CARTRIDGE_MAGIC ==
    << 104, 116, 116, 112, 115, 58, 47, 47, 120, 46, 99, 97, 114, 116, 114, 105,
       100, 103, 101, 46, 103, 103 >>

\* a felt that is not a Cairo short string
NotShortString == "0xff"

\* data of the deployment of a controller: address, four felts, a calldata
\* of 26 felts with the magic at 3..25 and the username as the salt
ControllerData(address, username) ==
    << address, 0, 0, 0, 0 >> \o << 0, 0, 22 >> \o CARTRIDGE_MAGIC \o << username >>

Tx(h, evs) == [transaction_hash |-> h, events |-> evs]

\* world events: a model, two deletes of one entity, a delete in a later block
ChainWorld(b) ==
    CASE b = 1 -> << Tx(11, << ModelRegistered("m1"), StoreDelRecord("m1", "e1") >>),
                     Tx(12, << StoreDelRecord("m1", "e1") >>) >>
      [] b = 2 -> << Tx(21, << StoreDelRecord("m1", "e2"),
                               StoreDelRecord("m1", "e1") >>) >>
      [] OTHER -> << >>

\* ERC20 transfers of one token between different holders
ChainErc(b) ==
    CASE b = 1 -> << Tx(11, << Transfer("a", "b", 5) >>),
                     Tx(12, << Transfer("b", "c", 2) >>) >>
      [] b = 2 -> << Tx(21, << Transfer(ZERO, "a", 3) >> ) >>
      [] OTHER -> << >>

\* both contracts, events in block 0, a transaction with events of two
\* contracts and of a contract that is not indexed
ChainMixed(b) ==
    CASE b = 0 -> << Tx(1, << Transfer(ZERO, "a", 4) >>) >>
      [] b = 1 -> << Tx(11, << Foreign("Noise"), StoreDelRecord("m1", "e1"),
                               Transfer("a", "b", 1) >>) >>
      [] b = 2 -> << Tx(21, << StoreDelRecord("m1", "e1") >>) >>
      [] OTHER -> << >>

\* a transaction with events of two contracts, the ERC20 one first; two
\* world events in block 1 and an empty block 2
ChainPair(b) ==
    CASE b = 1 -> << Tx(11, << Transfer("a", "b", 1), StoreDelRecord("m1", "e1") >>),
                     Tx(12, << StoreDelRecord("m1", "e2") >>) >>
      [] OTHER -> << >>

\* the deployment of a controller and a deployment with the 22 felts at
\* offset 3 of data, then a ContractDeployed event without data; in block 2
\* a deployment whose data is the address alone
ChainController(b) ==
    CASE b = 1 -> << Tx(11, << ContractDeployed(ControllerData("0xc1", "alice")),
                                ContractDeployed(<< "0xc2", 0, 0 >> \o CARTRIDGE_MAGIC
                                                    \o << "bob" >>) >>),
                     Tx(12, << ContractDeployed(<< >>) >>) >>
      [] b = 2 -> << Tx(21, << ContractDeployed(<< "0xc3" >>) >>) >>
      [] OTHER -> << >>

\* EngineConfig values and the chain of each scenario
Scenarios ==
    << [chain |-> "world", world_block |-> 0, blocks_chunk_size |-> 2,
        events_chunk_size |-> 3, max_concurrent_tasks |-> 2,
        RAW_EVENTS |-> TRUE, PENDING_BLOCKS |-> TRUE],
       [chain |-> "erc", world_block |-> 0, blocks_chunk_size |-> 1,
        events_chunk_size |-> 2, max_concurrent_tasks |-> 2,
        RAW_EVENTS |-> FALSE, PENDING_BLOCKS |-> TRUE],
       [chain |-> "mixed", world_block |-> 0, blocks_chunk_size |-> 2,
        events_chunk_size |-> 1, max_concurrent_tasks |-> 1,
        RAW_EVENTS |-> TRUE, PENDING_BLOCKS |-> FALSE],
       [chain |-> "pair", world_block |-> 0, blocks_chunk_size |-> 2,
        events_chunk_size |-> 1, max_concurrent_tasks |-> 1,
        RAW_EVENTS |-> FALSE, PENDING_BLOCKS |-> FALSE],
       [chain |-> "controller", world_block |-> 0, blocks_chunk_size |-> 2,
        events_chunk_size |-> 2, max_concurrent_tasks |-> 1,
        RAW_EVENTS |-> TRUE, PENDING_BLOCKS |-> TRUE],
       [chain |-> "pair", world_block |-> 1, blocks_chunk_size |-> 2,
        events_chunk_size |-> 3, max_concurrent_tasks |-> 1,
        RAW_EVENTS |-> FALSE, PENDING_BLOCKS |-> FALSE] >>

ChainOf(sc, b) ==
    CASE Scenarios[sc].chain = "world" -> ChainWorld(b)
      [] Scenarios[sc].chain = "erc" -> ChainErc(b)
      [] Scenarios[sc].chain = "pair" -> ChainPair(b)
      [] Scenarios[sc].chain = "controller" -> ChainController(b)
      [] OTHER -> ChainMixed(b)

(***************************************************************************)
(* Sequence helpers.                                                       *)
(***************************************************************************)
Min(a, b) == IF a < b THEN a ELSE b

RECURSIVE Concat(_)
Concat(ss) == IF ss = << >> THEN << >> ELSE Head(ss) \o Concat(Tail(ss))

RECURSIVE Dedup(_)
\* the elements of s in the order of their first occurrence
Dedup(s) ==
    IF s = << >> THEN << >>
    ELSE LET init == Dedup(SubSeq(s, 1, Len(s) - 1))
             last == s[Len(s)]
         IN IF \E i \in 1..Len(init) : init[i] = last THEN init ELSE Append(init, last)

RECURSIVE SortedSeq(_)
\* the numbers of S in increasing order
SortedSeq(S) ==
    IF S = {} THEN << >>
    ELSE LET m == CHOOSE x \in S : \A y \in S : x <= y
         IN << m >> \o SortedSeq(S \ {m})

Range(s) == { s[i] : i \in 1..Len(s) }

(***************************************************************************)
(* The provider: getEvents of one contract, in pages.                      *)
(***************************************************************************)
EmittedOfTx(b, tx) ==
    [i \in 1..Len(tx.events) |->
        [block_number |-> b, transaction_hash |-> tx.transaction_hash,
         from_address |-> tx.events[i].from_address,
         keys |-> tx.events[i].keys, data |-> tx.events[i].data]]

EmittedOfBlock(sc, b) ==
    Concat([t \in 1..Len(ChainOf(sc, b)) |-> EmittedOfTx(b, ChainOf(sc, b)[t])])

\* the events of contract c in blocks from..lat, in chain order
EventStream(sc, c, from, lat) ==
    SelectSeq(Concat([i \in 1..(lat - from + 1) |-> EmittedOfBlock(sc, from + i - 1)]),
              LAMBDA e : e.from_address = c)

\* page number p (from 0) of the stream, with its continuation token
get_events(sc, c, from, lat, p) ==
    LET stream == EventStream(sc, c, from, lat)
        cs == Scenarios[sc].events_chunk_size
        lo == p * cs + 1
        hi == Min((p + 1) * cs, Len(stream))
    IN [events |-> SubSeq(stream, lo, hi),
        continuation_token |-> (p + 1) * cs < Len(stream)]

(***************************************************************************)
(* The fetch stage.                                                        *)
(***************************************************************************)
\* a page filter that ignores the cursor of the contract
FilterPageNoCursor(evs, last_contract_tx, last_contract_tx_tmp, to) ==
    SelectSeq(evs, LAMBDA event : event.block_number <= to)

RECURSIVE FilterPage(_, _, _, _)
\* the loop over the events of one page in fetch_events
FilterPage(evs, last_contract_tx, last_contract_tx_tmp, to) ==
    IF evs = << >> THEN << >>
    ELSE LET event == Head(evs)
             rest == Tail(evs)
         IN IF event.block_number > to
            THEN FilterPage(rest, last_contract_tx, last_contract_tx_tmp, to)
            ELSE IF last_contract_tx_tmp # NoTx
                    /\ event.transaction_hash # last_contract_tx_tmp
            THEN FilterPage(rest, last_contract_tx, last_contract_tx_tmp, to)
            ELSE IF last_contract_tx # NoTx /\ event.transaction_hash = last_contract_tx
            THEN FilterPage(rest, last_contract_tx, NoTx, to)
            ELSE << event >> \o FilterPage(rest, last_contract_tx, NoTx, to)

\* block number of the last event of a page, 0 for an empty page
last_block_number(events_page) ==
    IF events_page.events = << >> THEN 0
    ELSE events_page.events[Len(events_page.events)].block_number

RECURSIVE fetch_events(_, _, _, _, _, _)
\* current_requests: sequence of [contract, page]; one round per recursion
fetch_events(sc, current_requests, cursor_map, to, from, lat) ==
    IF current_requests = << >> THEN << >>
    ELSE LET result(r) == get_events(sc, r.contract, from, lat, r.page)
             events == Concat([i \in 1..Len(current_requests) |->
                          FilterPage(result(current_requests[i]).events,
                                     cursor_map[current_requests[i].contract],
                                     cursor_map[current_requests[i].contract], to)])
             continued == SelectSeq(current_requests, LAMBDA r :
                              /\ result(r).continuation_token
                              /\ last_block_number(result(r)) < to
                              /\ result(r).events # << >>)
             next_requests == [i \in 1..Len(continued) |->
                                  [contract |-> continued[i].contract,
                                   page |-> continued[i].page + 1]]
         IN events \o fetch_events(sc, next_requests, cursor_map, to, from, lat)

\* the transactions of one block of a FetchRangeResult, in insertion order
TransactionsOfBlock(events, b) ==
    LET evs == SelectSeq(events, LAMBDA e : e.block_number = b)
        hashes == Dedup([i \in 1..Len(evs) |-> evs[i].transaction_hash])
    IN [i \in 1..Len(hashes) |->
           [transaction_hash |-> hashes[i],
            events |-> SelectSeq(evs, LAMBDA e : e.transaction_hash = hashes[i])]]

NoUnit ==
    [kind |-> "None", transactions |-> << >>, blocks |-> {},
     pending_block |-> << >>, block_number |-> 0, last_pending_block_tx |-> NoTx]

\* a fetch_range that keeps the first block of the range, not the last, in
\* block_numbers
fetch_range_from(sc, order, from, to, cursor_map, latest_block_number) ==
    LET initial == [i \in 1..Len(order) |-> [contract |-> order[i], page |-> 0]]
        events == fetch_events(sc, initial, cursor_map, to, from, latest_block_number)
        with_events == SortedSeq({ events[i].block_number : i \in 1..Len(events) })
        block_numbers == { events[i].block_number : i \in 1..Len(events) } \cup {from}
    IN [NoUnit EXCEPT
          !.kind = "Range",
          !.transactions = [i \in 1..Len(with_events) |->
                               [block_number |-> with_events[i],
                                txs |-> TransactionsOfBlock(events, with_events[i])]],
          !.blocks = block_numbers]

\* a fetch_range that asks for the timestamps of the blocks with events only
fetch_range_of_events(sc, order, from, to, cursor_map, latest_block_number) ==
    LET initial == [i \in 1..Len(order) |-> [contract |-> order[i], page |-> 0]]
        events == fetch_events(sc, initial, cursor_map, to, from, latest_block_number)
        with_events == SortedSeq({ events[i].block_number : i \in 1..Len(events) })
        block_numbers == { events[i].block_number : i \in 1..Len(events) }
    IN [NoUnit EXCEPT
          !.kind = "Range",
          !.transactions = [i \in 1..Len(with_events) |->
                               [block_number |-> with_events[i],
                                txs |-> TransactionsOfBlock(events, with_events[i])]],
          !.blocks = block_numbers]

\* FetchRangeResult: transactions is the BTreeMap in key order, blocks the keys
\* of the timestamp map
fetch_range(sc, order, from, to, cursor_map, latest_block_number) ==
    LET initial == [i \in 1..Len(order) |-> [contract |-> order[i], page |-> 0]]
        events == fetch_events(sc, initial, cursor_map, to, from, latest_block_number)
        with_events == SortedSeq({ events[i].block_number : i \in 1..Len(events) })
        block_numbers == { events[i].block_number : i \in 1..Len(events) } \cup {to}
    IN [NoUnit EXCEPT
          !.kind = "Range",
          !.transactions = [i \in 1..Len(with_events) |->
                               [block_number |-> with_events[i],
                                txs |-> TransactionsOfBlock(events, with_events[i])]],
          !.blocks = block_numbers]

\* FetchPendingResult for the pending block built on block lb
fetch_pending(pending_transactions, lb, last_pending_block_tx) ==
    [NoUnit EXCEPT
       !.kind = "Pending",
       !.pending_block = pending_transactions,
       !.block_number = lb + 1,
       !.last_pending_block_tx = last_pending_block_tx]

\* fetch_data for the latest block number lb the provider reports
fetch_data(sc, order, cursors, lb, pending_transactions) ==
    LET from == IF cursors.head = NoHead THEN Scenarios[sc].world_block ELSE cursors.head
        to == Min(lb, from + Scenarios[sc].blocks_chunk_size)
    IN IF from < lb
       THEN fetch_range(sc, order, IF from = 0 THEN from ELSE from + 1, to,
                        cursors.cursor_map, lb)
       ELSE IF Scenarios[sc].PENDING_BLOCKS
       THEN fetch_pending(pending_transactions, lb, cursors.last_pending_block_tx)
       ELSE NoUnit

(***************************************************************************)
(* The process stage: what process_range and process_pending walk.         *)
(***************************************************************************)
\* a walk of the pending block that does not skip to the cursor
PendingFromStart(txs, last_pending_block_tx_cursor) == txs

RECURSIVE PendingAfterCursor(_, _)
\* the transactions of the pending block that process_pending processes
PendingAfterCursor(txs, last_pending_block_tx_cursor) ==
    IF txs = << >> THEN << >>
    ELSE IF last_pending_block_tx_cursor # NoTx
    THEN IF Head(txs).transaction_hash # last_pending_block_tx_cursor
         THEN PendingAfterCursor(Tail(txs), last_pending_block_tx_cursor)
         ELSE PendingAfterCursor(Tail(txs), NoTx)
    ELSE txs

\* a walk of the range that does not follow the block numbers
ProcessedTxsReversed(u) ==
    IF u.kind = "Range"
    THEN Concat([i \in 1..Len(u.transactions) |->
            LET b == u.transactions[Len(u.transactions) + 1 - i]
            IN [j \in 1..Len(b.txs) |->
                   [block_number |-> b.block_number,
                    transaction_hash |-> b.txs[j].transaction_hash,
                    events |-> b.txs[j].events]]])
    ELSE IF u.kind = "Pending"
    THEN LET txs == PendingAfterCursor(u.pending_block, u.last_pending_block_tx)
         IN [j \in 1..Len(txs) |->
                [block_number |-> u.block_number,
                 transaction_hash |-> txs[j].transaction_hash,
                 events |-> txs[j].events]]
    ELSE << >>

\* the transactions a unit processes, in processing order
ProcessedTxs(u) ==
    IF u.kind = "Range"
    THEN Concat([i \in 1..Len(u.transactions) |->
            [j \in 1..Len(u.transactions[i].txs) |->
                [block_number |-> u.transactions[i].block_number,
                 transaction_hash |-> u.transactions[i].txs[j].transaction_hash,
                 events |-> u.transactions[i].txs[j].events]]])
    ELSE IF u.kind = "Pending"
    THEN LET txs == PendingAfterCursor(u.pending_block, u.last_pending_block_tx)
         IN [j \in 1..Len(txs) |->
                [block_number |-> u.block_number,
                 transaction_hash |-> txs[j].transaction_hash,
                 events |-> txs[j].events]]
    ELSE << >>

\* the calls of process_event made for one transaction: the events of indexed
\* contracts, each with its event_id (block, transaction, index)
EventsOfTx(tx) ==
    SelectSeq([i \in 1..Len(tx.events) |->
                  [event_id |-> << tx.block_number, tx.transaction_hash, i - 1 >>,
                   block_number |-> tx.block_number,
                   from_address |-> tx.events[i].from_address,
                   keys |-> tx.events[i].keys,
                   data |-> tx.events[i].data]],
              LAMBDA e : e.from_address \in DOMAIN contracts)

\* every call of process_event of the unit, in order
EventsOfUnit(u) ==
    Concat([i \in 1..Len(ProcessedTxs(u)) |-> EventsOfTx(ProcessedTxs(u)[i])])

\* a cursor_map whose entry keeps the transaction that created it
CursorMapOfFirst(u) ==
    LET txs == ProcessedTxs(u)
        with(c) == SelectSeq(txs, LAMBDA tx :
                       \E i \in 1..Len(tx.events) : tx.events[i].from_address = c)
        seen == { c \in DOMAIN contracts : with(c) # << >> }
    IN [c \in seen |-> << with(c)[1].transaction_hash, Len(with(c)) >>]

\* the cursor_map built by process_transaction_with_events / _with_receipt:
\* contract -> (last transaction hash, number of transactions)
CursorMapOf(u) ==
    LET txs == ProcessedTxs(u)
        with(c) == SelectSeq(txs, LAMBDA tx :
                       \E i \in 1..Len(tx.events) : tx.events[i].from_address = c)
        seen == { c \in DOMAIN contracts : with(c) # << >> }
    IN [c \in seen |-> << with(c)[Len(with(c))].transaction_hash, Len(with(c)) >>]

\* a last_pending_block_tx that is cleared by a tick that walks no transaction
LastPendingTxOrNone(u) ==
    LET txs == ProcessedTxs(u)
    IN IF txs = << >> THEN NoTx ELSE txs[Len(txs)].transaction_hash

\* last_pending_block_tx at the end of process_pending
LastPendingTx(u) ==
    LET txs == ProcessedTxs(u)
    IN IF txs = << >> THEN u.last_pending_block_tx
       ELSE txs[Len(txs)].transaction_hash

\* the largest block number of range.blocks
LastBlock(u) == CHOOSE b \in u.blocks : \A c \in u.blocks : c <= b

(***************************************************************************)
(* Processors.                                                             *)
(***************************************************************************)
\* the processors registered for (contract type, event key), in order
EventProcessors(contract_type, event_key) ==
    CASE contract_type = "WORLD" /\ event_key = "StoreDelRecord" -> << "StoreDelRecord" >>
      [] contract_type = "WORLD" /\ event_key = "ModelRegistered" -> << "RegisterModel" >>
      [] contract_type = "ERC20" /\ event_key = "Transfer" -> << "Erc20Transfer" >>
      [] contract_type = "UDC" /\ event_key = "ContractDeployed" -> << "Controller" >>
      [] OTHER -> << >>

\* EventProcessor::validate
validate(processor, event) ==
    CASE processor = "Controller" -> Len(event.keys) = 1 /\ event.data # << >>
      [] OTHER -> TRUE

\* the 64-bit hash of a sequence of felts, taken to be collision free
Hash(felts) == felts

\* task_identifier that also hashes the position of the event
task_identifier_per_event(processor, event) ==
    CASE processor = "StoreDelRecord" ->
            Hash(<< event.keys[2], event.keys[3], event.event_id >>)
      [] processor = "RegisterModel" -> Hash(<< event.keys[2] >>)
      [] processor = "Controller" -> Hash(<< event.data[1] >>)
      [] OTHER -> Hash(<< event.from_address, event.keys[2], event.keys[3],
                          event.from_address >>)

\* EventProcessor::task_identifier
task_identifier(processor, event) ==
    CASE processor = "StoreDelRecord" -> Hash(<< event.keys[2], event.keys[3] >>)
      [] processor = "RegisterModel" -> Hash(<< event.keys[2] >>)
      [] processor = "Controller" -> Hash(<< event.data[1] >>)
      [] OTHER -> Hash(<< event.from_address, event.keys[2], event.keys[3],
                          event.from_address >>)

\* task_dependencies that declares none
task_dependencies_none(processor, event) == {}

\* EventProcessor::task_dependencies
task_dependencies(processor, event) ==
    CASE processor = "StoreDelRecord" -> { Hash(<< event.keys[2] >>) }
      [] OTHER -> {}

\* the processor process_event picks: the first one whose validate passes
ProcessorOf(event) ==
    LET ps == EventProcessors(contracts[event.from_address], event.keys[1])
        ok == { i \in 1..Len(ps) : validate(ps[i], event) }
    IN IF ok = {} THEN "none"
       ELSE ps[CHOOSE i \in ok : \A j \in ok : i <= j]

\* token_id of an ERC20 transfer: the contract address
TokenIdOf(event) == event.from_address

(***************************************************************************)
(* Write messages and the store behind the executor.                       *)
(***************************************************************************)
NoCursorUpdate ==
    [head |-> NoHead, last_block_timestamp |-> 0, last_pending_block_tx |-> NoTx,
     cursor_map |-> << >>]

NoTransfer == [from |-> "", to |-> "", amount |-> 0]

Msg(type, t) ==
    [type |-> type, tick |-> t, event_id |-> << >>, token_id |-> "",
     transfer |-> NoTransfer, erc_cache |-> << >>, cursors |-> NoCursorUpdate,
     controller |-> << >>]

\* number of messages of tick t in a sequence of messages
Count(msgs, t) == Cardinality({ i \in 1..Len(msgs) : msgs[i].tick = t })

\* the store after one message of the transaction is applied
ApplyMessage(st, m) ==
    CASE m.type = "RegisterErc20Token" ->
            [st EXCEPT !.tokens = @ \cup {m.token_id}]
      [] m.type = "Other" ->
            \* INSERT INTO token_transfers ... ON CONFLICT DO NOTHING
            IF \E r \in st.transfers : r.id = << m.event_id, m.token_id >>
            THEN st
            ELSE [st EXCEPT !.transfers = @ \cup
                     {[id |-> << m.event_id, m.token_id >>, token_id |-> m.token_id,
                       from |-> m.transfer.from, to |-> m.transfer.to,
                       amount |-> m.transfer.amount]}]
      [] m.type = "ApplyBalanceDiff" ->
            [st EXCEPT !.balances =
                [k \in DOMAIN @ \cup DOMAIN m.erc_cache |->
                    (IF k \in DOMAIN @ THEN @[k] ELSE 0)
                    + (IF k \in DOMAIN m.erc_cache THEN m.erc_cache[k] ELSE 0)]]
      [] m.type = "UpdateCursors" ->
            [st EXCEPT !.head = m.cursors.head,
                       !.last_block_timestamp = m.cursors.last_block_timestamp,
                       !.last_pending_block_tx = m.cursors.last_pending_block_tx,
                       !.cursor_map = [c \in DOMAIN @ |->
                            IF c \in DOMAIN m.cursors.cursor_map
                            THEN m.cursors.cursor_map[c][1] ELSE @[c]]]
      [] OTHER ->
            [st EXCEPT !.rows = @ \cup {[type |-> m.type, event_id |-> m.event_id]}]

RECURSIVE ApplyAll(_, _)
ApplyAll(st, msgs) ==
    IF msgs = << >> THEN st ELSE ApplyAll(ApplyMessage(st, Head(msgs)), Tail(msgs))

\* Sql::cursors: the committed cursors
CursorsOf(st) ==
    [head |-> st.head, last_block_timestamp |-> st.last_block_timestamp,
     last_pending_block_tx |-> st.last_pending_block_tx, cursor_map |-> st.cursor_map]

EmptyStore ==
    [head |-> NoHead, last_block_timestamp |-> 0, last_pending_block_tx |-> NoTx,
     cursor_map |-> [c \in DOMAIN contracts |-> NoTx],
     tokens |-> {}, transfers |-> {}, balances |-> << >>, rows |-> {}]

\* an entry that takes the delta instead of adding it
CacheSet(cache, key, delta) ==
    IF key \in DOMAIN cache THEN [cache EXCEPT ![key] = delta]
    ELSE cache @@ (key :> delta)

\* erc_cache.entry(key).or_default() += delta
CacheAdd(cache, key, delta) ==
    IF key \in DOMAIN cache THEN [cache EXCEPT ![key] = @ + delta]
    ELSE cache @@ (key :> delta)

(***************************************************************************)
(* Values of the subscription managers.                                    *)
(***************************************************************************)
\* the values rand::thread_rng().gen() returns
SubIds == 1..MaxIds

\* the keys of a published value and the clauses of subscribers
EventKeys == {"k1", "k2"}
KeysClauses == {"k1"}

\* match_keys / match_entity: the clause accepts every value or one key
match_keys(keys, clause) == clause = "any" \/ clause = keys

\* no entry of the subscribers map
NoSubscriber == [client |-> 0, keys |-> "none"]

\* the first message of a channel: SubscribeEventsResponse { event: None } or
\* SubscribeEntityResponse { entity: None, subscription_id }
Sentinel(kind, id) == [n |-> 0, subscription_id |-> IF kind = "entity" THEN id ELSE 0]

\* the response for the n-th published value sent to the subscriber idx
Response(kind, n, idx) ==
    [n |-> n, subscription_id |-> IF kind = "entity" THEN idx ELSE 0]

\* the publisher task between two published values
IdlePublisher(kind) ==
    [kind |-> kind, pc |-> "idle", n |-> 0, keys |-> "none", todo |-> << >>,
     closed_stream |-> {}]

(***************************************************************************)
(* State.                                                                  *)
(***************************************************************************)
\* the clauses that update_subscriber is called with
UpdateClauses == {"any"}

\* no update_subscriber call in flight, after `calls` calls
IdleUpdater(calls) ==
    [pc |-> "idle", id |-> 0, clause |-> "none", sender |-> 0, calls |-> calls]

VARIABLES
    scenario,          \* index of the chain and EngineConfig in use
    latest,            \* number of the latest block of the chain
    pending_len,       \* transactions of block latest + 1 in the pending block
    store,             \* the committed store
    queue,             \* messages of the executor's open transaction
    erc_cache,         \* LocalCache.erc_cache
    observed,          \* history: the transfers added to erc_cache since its last drain
    token_id_registry, \* LocalCache: the token ids marked registered
    token_lock,        \* LocalCache: holder of each token registration mutex
    tasks,             \* TaskManager: the events added, in order
    pc,                \* position of the engine loop
    unit,              \* the FetchDataResult of the tick
    cursors,           \* the cursors read at the start of the tick
    backoff_delay,     \* seconds
    erroring_out,
    tick,              \* number of ticks started
    failures,          \* number of failures injected
    ticks,             \* per tick: outcome, messages sent, messages committed
    register_sent,     \* token ids a Register*Token message was sent for
    shutdown_sent,     \* the shutdown signal has been broadcast
    nft,               \* a handle_nft_transfer call: its inputs and its result
    subscribers,       \* the subscribers map of the manager: id -> subscriber
    channels,          \* per add_subscriber call: the channel and its client
    publisher,         \* the publish_updates task
    updater            \* the update_subscriber call in flight

engineVars == << scenario, latest, pending_len, store, queue, erc_cache, observed,
                 token_id_registry, token_lock, tasks, pc, unit, cursors,
                 backoff_delay, erroring_out, tick, failures, ticks, register_sent,
                 shutdown_sent, nft >>

brokerVars == << subscribers, channels, publisher, updater >>

vars == << engineVars, brokerVars >>

chainVars == << scenario, latest, pending_len >>
cacheVars == << erc_cache, observed, token_id_registry, token_lock >>
backoffVars == << backoff_delay, erroring_out >>

Config == Scenarios[scenario]

\* seconds of max_backoff_delay
max_backoff_delay == 60

NoLock == 0

Init ==
    /\ scenario \in 1..Len(Scenarios)
    /\ latest \in 0..1
    /\ pending_len = 0
    /\ store = EmptyStore
    /\ queue = << >>
    /\ erc_cache = << >>
    /\ observed = << >>
    /\ token_id_registry = {}
    /\ token_lock = [t \in {Erc20Address} |-> NoLock]
    /\ tasks = << >>
    /\ pc = "idle"
    /\ unit = NoUnit
    /\ cursors = CursorsOf(EmptyStore)
    /\ backoff_delay = 1
    /\ erroring_out = FALSE
    /\ tick = 0
    /\ failures = 0
    /\ ticks = << >>
    /\ register_sent = {}
    /\ shutdown_sent = FALSE
    /\ nft = [pc |-> "none"]
    /\ subscribers = [id \in SubIds |-> NoSubscriber]
    /\ channels = << >>
    /\ publisher = IdlePublisher("event")
    /\ updater = IdleUpdater(0)

(***************************************************************************)
(* The chain.                                                              *)
(***************************************************************************)
\* the transactions of the pending block as the provider serves them
PendingTransactions == SubSeq(ChainOf(scenario, latest + 1), 1, pending_len)

\* a block is mined; the engine sees the chain only in its fetch stage
MineBlock ==
    /\ pc = "idle"
    /\ latest < MaxBlock
    /\ latest' = latest + 1
    /\ pending_len' = 0
    /\ UNCHANGED << scenario, store, queue, erc_cache, observed, token_id_registry, token_lock,
                    tasks, pc, unit, cursors, backoff_delay, erroring_out, tick,
                    failures, ticks, register_sent >>
    /\ UNCHANGED << brokerVars, shutdown_sent, nft >>

\* a transaction enters the pending block
AddPendingTx ==
    /\ pc = "idle"
    /\ pending_len < Len(ChainOf(scenario, latest + 1))
    /\ pending_len' = pending_len + 1
    /\ UNCHANGED << scenario, latest, store, queue, erc_cache, observed, token_id_registry,
                    token_lock, tasks, pc, unit, cursors, backoff_delay, erroring_out,
                    tick, failures, ticks, register_sent >>
    /\ UNCHANGED << brokerVars, shutdown_sent, nft >>

(***************************************************************************)
(* Engine::start: the fetch stage of a tick.                               *)
(***************************************************************************)
\* the record of a tick: erroring and delay are erroring_out and backoff_delay
\* at its start, slept the backoff delay it slept after its failure, events
\* the events it handed to process_event when the walk of its unit ended
NewTick(outcome) ==
    [outcome |-> outcome, sent |-> 0, committed |-> 0, commits |-> {},
     erroring |-> erroring_out, delay |-> backoff_delay, slept |-> 0,
     events |-> {}]

\* sleep(backoff_delay); if backoff_delay < max_backoff_delay { backoff_delay *= 2 }
Backoff(d) == IF d < max_backoff_delay THEN d * 2 ELSE d

\* cursors() and fetch_data() return Ok: lb is the latest block number the
\* provider reports, txs the pending block it serves
FetchOk(lb, txs) ==
    /\ pc = "idle"
    /\ tick < MaxTicks
    /\ \E order \in ContractOrders :
          unit' = fetch_data(scenario, order, CursorsOf(store), lb, txs)
    /\ cursors' = CursorsOf(store)
    /\ pc' = "fetched"
    /\ tick' = tick + 1
    /\ ticks' = Append(ticks, NewTick("running"))
    /\ erroring_out' = FALSE
    /\ backoff_delay' = IF erroring_out THEN 1 ELSE backoff_delay
    /\ UNCHANGED << chainVars, store, queue, cacheVars, tasks, failures, register_sent >>
    /\ UNCHANGED << brokerVars, shutdown_sent, nft >>

Fetch == FetchOk(latest, PendingTransactions)

\* a block is mined between block_hash_and_number and the fetch of the
\* pending block: parent_hash differs, fetch_pending returns None
FetchRaced ==
    /\ pc = "idle"
    /\ tick < MaxTicks
    /\ latest < MaxBlock
    /\ Config.PENDING_BLOCKS
    /\ (IF store.head = NoHead THEN Config.world_block ELSE store.head) >= latest
    /\ latest' = latest + 1
    /\ pending_len' = 0
    /\ unit' = NoUnit
    /\ cursors' = CursorsOf(store)
    /\ pc' = "fetched"
    /\ tick' = tick + 1
    /\ ticks' = Append(ticks, NewTick("running"))
    /\ erroring_out' = FALSE
    /\ backoff_delay' = IF erroring_out THEN 1 ELSE backoff_delay
    /\ UNCHANGED << scenario, store, queue, cacheVars, tasks, failures, register_sent >>
    /\ UNCHANGED << brokerVars, shutdown_sent, nft >>

\* fetch_data returns Err
FetchErr ==
    /\ pc = "idle"
    /\ tick < MaxTicks
    /\ failures < MaxFailures
    /\ failures' = failures + 1
    /\ cursors' = CursorsOf(store)
    /\ erroring_out' = TRUE
    /\ backoff_delay' = Backoff(backoff_delay)
    /\ tick' = tick + 1
    /\ ticks' = Append(ticks, [NewTick("fetch_err") EXCEPT !.slept = backoff_delay])
    /\ UNCHANGED << chainVars, store, queue, cacheVars, tasks, pc, unit, register_sent >>
    /\ UNCHANGED << brokerVars, shutdown_sent, nft >>

\* the shutdown signal is broadcast, wherever the engine is
SendShutdown ==
    /\ ~shutdown_sent
    /\ pc \notin {"stopped", "panicked"}
    /\ shutdown_sent' = TRUE
    /\ UNCHANGED << chainVars, store, queue, cacheVars, tasks, pc, unit, cursors,
                    backoffVars, tick, failures, ticks, register_sent >>
    /\ UNCHANGED << brokerVars, nft >>

\* an engine that leaves its loop wherever the signal finds it
ShutdownAnywhere ==
    /\ pc \notin {"stopped", "panicked"}
    /\ pc' = "stopped"
    /\ shutdown_sent' = TRUE
    /\ UNCHANGED << chainVars, store, queue, cacheVars, tasks, unit, cursors,
                    backoffVars, tick, failures, ticks, register_sent >>
    /\ UNCHANGED << brokerVars, nft >>

\* the shutdown signal, broadcast before or during the select, wins the
\* select: break Ok(())
Shutdown ==
    /\ pc = "idle"
    /\ pc' = "stopped"
    /\ shutdown_sent' = TRUE
    /\ UNCHANGED << chainVars, store, queue, cacheVars, tasks, unit, cursors,
                    backoffVars, tick, failures, ticks, register_sent >>
    /\ UNCHANGED << brokerVars, nft >>

(***************************************************************************)
(* Engine::process: walking the unit (process_range / process_pending up   *)
(* to process_tasks) and process_event.                                    *)
(***************************************************************************)
\* the message store_event sends for an event
StoreEventMsg(e) == [Msg("StoreEvent", tick) EXCEPT !.event_id = e.event_id]

\* the task add_parallelized_event_with_dependencies adds for an event
TaskOf(e) ==
    [id |-> task_identifier(ProcessorOf(e), e),
     deps |-> task_dependencies(ProcessorOf(e), e),
     processor |-> ProcessorOf(e),
     event |-> e, status |-> "pending", step |-> "start", tick |-> tick]

\* process_event on the first k events of the unit: the raw events stored
RawEventsOf(events, k) ==
    IF Config.RAW_EVENTS
    THEN [i \in 1..k |-> StoreEventMsg(events[i])]
    ELSE << >>

\* process_event on the first k events of the unit: the tasks added; an
\* event without a processor goes to the catch-all processor and adds none
TasksOf(events, k) ==
    LET with == SelectSeq(SubSeq(events, 1, k), LAMBDA e : ProcessorOf(e) # "none")
    IN [i \in 1..Len(with) |-> TaskOf(with[i])]

\* the events of a walk as the chain identifies them: block, transaction,
\* emitter, keys and data
DispatchedOf(events) ==
    { << events[i].block_number, events[i].event_id[2], events[i].from_address,
         events[i].keys, events[i].data >> : i \in 1..Len(events) }

\* processors are registered for the key of the event and none validates it
Declined(e) ==
    /\ EventProcessors(contracts[e.from_address], e.keys[1]) # << >>
    /\ ProcessorOf(e) = "none"

\* index of the first event of the walk that hits the expect, 0 for none
FirstDeclined(events) ==
    IF \E i \in 1..Len(events) : Declined(events[i])
    THEN CHOOSE i \in 1..Len(events) :
            /\ Declined(events[i])
            /\ \A j \in 1..(i - 1) : ~Declined(events[j])
    ELSE 0

\* a process(FetchDataResult::None) that is followed by apply_cache_diff and
\* execute like the other results
ProcessNoneFlushes ==
    /\ pc = "fetched"
    /\ unit.kind = "None"
    /\ pc' = "apply_cache_diff"
    /\ UNCHANGED << chainVars, store, queue, cacheVars, tasks, unit, cursors,
                    backoffVars, tick, failures, ticks, register_sent >>
    /\ UNCHANGED << brokerVars, shutdown_sent, nft >>

\* process(FetchDataResult::None): nothing to do, nothing to flush
ProcessNone ==
    /\ pc = "fetched"
    /\ unit.kind = "None"
    /\ pc' = "idle"
    /\ ticks' = [ticks EXCEPT ![tick].outcome = "none"]
    /\ UNCHANGED << chainVars, store, queue, cacheVars, tasks, unit, cursors,
                    backoffVars, tick, failures, register_sent >>
    /\ UNCHANGED << brokerVars, shutdown_sent, nft >>

\* the loops of process_range / process_pending over every transaction
Enqueue ==
    /\ pc = "fetched"
    /\ unit.kind # "None"
    /\ FirstDeclined(EventsOfUnit(unit)) = 0
    /\ LET events == EventsOfUnit(unit)
       IN /\ queue' = queue \o RawEventsOf(events, Len(events))
          /\ tasks' = tasks \o TasksOf(events, Len(events))
          /\ ticks' = [ticks EXCEPT ![tick].events = DispatchedOf(events)]
    /\ pc' = "process_tasks"
    /\ UNCHANGED << chainVars, store, cacheVars, unit, cursors, backoffVars, tick,
                    failures, register_sent >>
    /\ UNCHANGED << brokerVars, shutdown_sent, nft >>

\* the walk fails (a block processor or a write returns Err) after k events
EnqueueErr ==
    /\ pc = "fetched"
    /\ unit.kind # "None"
    /\ failures < MaxFailures
    /\ failures' = failures + 1
    /\ LET events == EventsOfUnit(unit)
           last == IF FirstDeclined(events) = 0 THEN Len(events)
                   ELSE FirstDeclined(events) - 1
       IN \E k \in 1..last :
             /\ queue' = queue \o RawEventsOf(events, k)
             /\ tasks' = tasks \o TasksOf(events, k)
    /\ pc' = "rollback"
    /\ UNCHANGED << chainVars, store, cacheVars, unit, cursors, backoffVars, tick,
                    ticks, register_sent >>
    /\ UNCHANGED << brokerVars, shutdown_sent, nft >>

\* the walk reaches an event whose registered processors all decline it:
\* .expect("Must find atleast one processor for the event") panics
EnqueuePanic ==
    /\ pc = "fetched"
    /\ unit.kind # "None"
    /\ FirstDeclined(EventsOfUnit(unit)) # 0
    /\ LET events == EventsOfUnit(unit)
           k == FirstDeclined(events)
       IN /\ queue' = queue \o RawEventsOf(events, k)
          /\ tasks' = tasks \o TasksOf(events, k - 1)
    /\ pc' = "panicked"
    /\ ticks' = [ticks EXCEPT ![tick].outcome = "expect_panic",
                              ![tick].sent = Count(queue', tick)]
    /\ UNCHANGED << chainVars, store, cacheVars, unit, cursors, backoffVars, tick,
                    failures, register_sent >>
    /\ UNCHANGED << brokerVars, shutdown_sent, nft >>

(***************************************************************************)
(* TaskManager::process_tasks and the processors it runs.                  *)
(***************************************************************************)
Running == { n \in 1..Len(tasks) : tasks[n].status = "running" }
Failed == { n \in 1..Len(tasks) : tasks[n].status = "failed" }
Done == { n \in 1..Len(tasks) : tasks[n].status = "done" }

\* a task may start: its slot predecessors and its dependencies have
\* completed and a permit is free
Eligible(n) ==
    /\ tasks[n].status = "pending"
    /\ Failed = {}
    /\ Cardinality(Running) < Config.max_concurrent_tasks
    /\ \A m \in 1..(n - 1) : tasks[m].id = tasks[n].id => tasks[m].status = "done"
    /\ \A m \in 1..Len(tasks) :
          (m # n /\ tasks[m].id \in tasks[n].deps) => tasks[m].status = "done"

StartTask(n) ==
    /\ pc = "process_tasks"
    /\ Eligible(n)
    /\ tasks' = [tasks EXCEPT ![n].status = "running",
                              ![n].step = IF tasks[n].processor = "Erc20Transfer"
                                          THEN "get_lock" ELSE "process"]
    /\ UNCHANGED << chainVars, store, queue, cacheVars, pc, unit, cursors,
                    backoffVars, tick, failures, ticks, register_sent >>
    /\ UNCHANGED << brokerVars, shutdown_sent, nft >>

At(n, step) ==
    /\ pc = "process_tasks"
    /\ tasks[n].status = "running"
    /\ tasks[n].step = step

\* a processor returns Err: the futures of the task are dropped
FailTask(n) ==
    /\ failures < MaxFailures
    /\ failures' = failures + 1
    /\ tasks' = [tasks EXCEPT ![n].status = "failed"]

\* StoreDelRecordProcessor::process: db.model then db.delete_entity
StoreDelRecordProcess(n) ==
    /\ At(n, "process")
    /\ tasks[n].processor = "StoreDelRecord"
    /\ \/ /\ queue' = Append(queue, [Msg("DeleteEntity", tick) EXCEPT
                                        !.event_id = tasks[n].event.event_id])
          /\ tasks' = [tasks EXCEPT ![n].status = "done"]
          /\ UNCHANGED failures
       \/ /\ FailTask(n)
          /\ UNCHANGED queue
    /\ UNCHANGED << chainVars, store, cacheVars, pc, unit, cursors, backoffVars,
                    tick, ticks, register_sent >>
    /\ UNCHANGED << brokerVars, shutdown_sent, nft >>

\* the RegisterModel processor: registers the model
RegisterModelProcess(n) ==
    /\ At(n, "process")
    /\ tasks[n].processor = "RegisterModel"
    /\ \/ /\ queue' = Append(queue, [Msg("RegisterModel", tick) EXCEPT
                                        !.event_id = tasks[n].event.event_id])
          /\ tasks' = [tasks EXCEPT ![n].status = "done"]
          /\ UNCHANGED failures
       \/ /\ FailTask(n)
          /\ UNCHANGED queue
    /\ UNCHANGED << chainVars, store, cacheVars, pc, unit, cursors, backoffVars,
                    tick, ticks, register_sent >>
    /\ UNCHANGED << brokerVars, shutdown_sent, nft >>

\* a processor that looks for the 22 felts at offset 3 of data
ControllerProcessDataOffset(n) ==
    /\ At(n, "process")
    /\ tasks[n].processor = "Controller"
    /\ LET data == tasks[n].event.data
           calldata == SubSeq(data, 6, Len(data))
           username_felt == data[Len(data)]
       IN IF Len(data) < 5
          THEN \* event.data[5..] is out of range: the slice panics
               /\ pc' = "panicked"
               /\ ticks' = [ticks EXCEPT ![tick].outcome = "slice_panic",
                                         ![tick].sent = Count(queue, tick)]
               /\ UNCHANGED << queue, tasks, failures >>
          ELSE IF \/ Len(data) < 25
                  \/ SubSeq(data, 4, 25) # CARTRIDGE_MAGIC
          THEN /\ tasks' = [tasks EXCEPT ![n].status = "done"]
               /\ UNCHANGED << queue, failures, pc, ticks >>
          ELSE IF username_felt = NotShortString
          THEN \* parse_cairo_short_string returns Err
               /\ tasks' = [tasks EXCEPT ![n].status = "failed"]
               /\ UNCHANGED << queue, failures, pc, ticks >>
          ELSE \/ /\ queue' = Append(queue, [Msg("AddController", tick) EXCEPT
                            !.event_id = tasks[n].event.event_id,
                            !.controller = << username_felt, data[1],
                                              Timestamp(tasks[n].event.block_number) >>])
                  /\ tasks' = [tasks EXCEPT ![n].status = "done"]
                  /\ UNCHANGED << failures, pc, ticks >>
               \/ /\ FailTask(n)
                  /\ UNCHANGED << queue, pc, ticks >>
    /\ UNCHANGED << chainVars, store, cacheVars, unit, cursors, backoffVars,
                    tick, register_sent >>
    /\ UNCHANGED << brokerVars, shutdown_sent, nft >>

\* ControllerProcessor::process
ControllerProcess(n) ==
    /\ At(n, "process")
    /\ tasks[n].processor = "Controller"
    /\ LET data == tasks[n].event.data
           calldata == SubSeq(data, 6, Len(data))
           username_felt == data[Len(data)]
       IN IF Len(data) < 5
          THEN \* event.data[5..] is out of range: the slice panics
               /\ pc' = "panicked"
               /\ ticks' = [ticks EXCEPT ![tick].outcome = "slice_panic",
                                         ![tick].sent = Count(queue, tick)]
               /\ UNCHANGED << queue, tasks, failures >>
          ELSE IF \/ Len(calldata) < 25
                  \/ calldata[3] # 22
                  \/ SubSeq(calldata, 4, 25) # CARTRIDGE_MAGIC
          THEN /\ tasks' = [tasks EXCEPT ![n].status = "done"]
               /\ UNCHANGED << queue, failures, pc, ticks >>
          ELSE IF username_felt = NotShortString
          THEN \* parse_cairo_short_string returns Err
               /\ tasks' = [tasks EXCEPT ![n].status = "failed"]
               /\ UNCHANGED << queue, failures, pc, ticks >>
          ELSE \/ /\ queue' = Append(queue, [Msg("AddController", tick) EXCEPT
                            !.event_id = tasks[n].event.event_id,
                            !.controller = << username_felt, data[1],
                                              Timestamp(tasks[n].event.block_number) >>])
                  /\ tasks' = [tasks EXCEPT ![n].status = "done"]
                  /\ UNCHANGED << failures, pc, ticks >>
               \/ /\ FailTask(n)
                  /\ UNCHANGED << queue, pc, ticks >>
    /\ UNCHANGED << chainVars, store, cacheVars, unit, cursors, backoffVars,
                    tick, register_sent >>
    /\ UNCHANGED << brokerVars, shutdown_sent, nft >>

(***************************************************************************)
(* Sql::handle_erc20_transfer, run by the ERC20 transfer processor.        *)
(***************************************************************************)
\* LocalCache::get_token_registration_lock: the mutex iff the token is not
\* marked registered
GetTokenRegistrationLock(n) ==
    /\ At(n, "get_lock")
    /\ tasks' = [tasks EXCEPT ![n].step =
                    IF TokenIdOf(tasks[n].event) \in token_id_registry
                    THEN "store" ELSE "lock"]
    /\ UNCHANGED << chainVars, store, queue, cacheVars, pc, unit, cursors,
                    backoffVars, tick, failures, ticks, register_sent >>
    /\ UNCHANGED << brokerVars, shutdown_sent, nft >>

\* _lock.lock().await
LockRegistration(n) ==
    /\ At(n, "lock")
    /\ token_lock[TokenIdOf(tasks[n].event)] = NoLock
    /\ token_lock' = [token_lock EXCEPT ![TokenIdOf(tasks[n].event)] = n]
    /\ tasks' = [tasks EXCEPT ![n].step = "rpc"]
    /\ UNCHANGED << chainVars, store, queue, erc_cache, observed, token_id_registry, pc, unit,
                    cursors, backoffVars, tick, failures, ticks, register_sent >>
    /\ UNCHANGED << brokerVars, shutdown_sent, nft >>

\* provider.batch_requests(name, symbol, decimals) and the parsing of its
\* results; on Err the guard is dropped
BatchRequests(n) ==
    /\ At(n, "rpc")
    /\ \/ /\ tasks' = [tasks EXCEPT ![n].step = "send"]
          /\ UNCHANGED << failures, token_lock >>
       \/ /\ FailTask(n)
          /\ token_lock' = [token_lock EXCEPT ![TokenIdOf(tasks[n].event)] = NoLock]
    /\ UNCHANGED << chainVars, store, queue, erc_cache, observed, token_id_registry, pc, unit,
                    cursors, backoffVars, tick, ticks, register_sent >>
    /\ UNCHANGED << brokerVars, shutdown_sent, nft >>

\* a registration that marks the token without sending the message
SendRegisterDropped(n) ==
    /\ At(n, "send")
    /\ tasks' = [tasks EXCEPT ![n].step = "mark"]
    /\ UNCHANGED << chainVars, store, queue, cacheVars, pc, unit, cursors, backoffVars,
                    tick, failures, ticks, register_sent >>
    /\ UNCHANGED << brokerVars, shutdown_sent, nft >>

\* executor.send(RegisterErc20Token)
SendRegister(n) ==
    /\ At(n, "send")
    /\ queue' = Append(queue, [Msg("RegisterErc20Token", tick) EXCEPT
                                  !.token_id = TokenIdOf(tasks[n].event)])
    /\ register_sent' = register_sent \cup {TokenIdOf(tasks[n].event)}
    /\ tasks' = [tasks EXCEPT ![n].step = "mark"]
    /\ UNCHANGED << chainVars, store, cacheVars, pc, unit, cursors, backoffVars,
                    tick, failures, ticks >>
    /\ UNCHANGED << brokerVars, shutdown_sent, nft >>

\* local_cache.mark_token_registered, then the return drops the guard
MarkTokenRegistered(n) ==
    /\ At(n, "mark")
    /\ token_id_registry' = token_id_registry \cup {TokenIdOf(tasks[n].event)}
    /\ token_lock' = [token_lock EXCEPT ![TokenIdOf(tasks[n].event)] = NoLock]
    /\ tasks' = [tasks EXCEPT ![n].step = "store"]
    /\ UNCHANGED << chainVars, store, queue, erc_cache, observed, pc, unit, cursors,
                    backoffVars, tick, failures, ticks, register_sent >>
    /\ UNCHANGED << brokerVars, shutdown_sent, nft >>

\* store_erc_transfer_event
StoreErcTransferEvent(n) ==
    /\ At(n, "store")
    /\ queue' = Append(queue, [Msg("Other", tick) EXCEPT
                                  !.event_id = tasks[n].event.event_id,
                                  !.token_id = TokenIdOf(tasks[n].event),
                                  !.transfer = [from |-> tasks[n].event.keys[2],
                                                to |-> tasks[n].event.keys[3],
                                                amount |-> tasks[n].event.data[1]]])
    /\ tasks' = [tasks EXCEPT ![n].step = "cache"]
    /\ UNCHANGED << chainVars, store, cacheVars, pc, unit, cursors, backoffVars,
                    tick, failures, ticks, register_sent >>
    /\ UNCHANGED << brokerVars, shutdown_sent, nft >>

\* the balance deltas of one transfer
Erc20Diff(cache, token_id, from_address, to_address, amount) ==
    LET debited == IF from_address # ZERO
                   THEN CacheAdd(cache, << from_address, token_id >>, 0 - amount)
                   ELSE cache
    IN IF to_address # ZERO
       THEN CacheAdd(debited, << to_address, token_id >>, amount)
       ELSE debited

\* the block under erc_cache.write().await
UpdateErcCache(n) ==
    /\ At(n, "cache")
    /\ erc_cache' = Erc20Diff(erc_cache, TokenIdOf(tasks[n].event),
                              tasks[n].event.keys[2], tasks[n].event.keys[3],
                              tasks[n].event.data[1])
    /\ LET transfer == << TokenIdOf(tasks[n].event), tasks[n].event.keys[2],
                           tasks[n].event.keys[3], tasks[n].event.data[1] >>
       IN observed' = IF transfer \in DOMAIN observed
                      THEN [observed EXCEPT ![transfer] = @ + 1]
                      ELSE observed @@ (transfer :> 1)
    /\ tasks' = [tasks EXCEPT ![n].status = "done"]
    /\ UNCHANGED << chainVars, store, queue, token_id_registry, token_lock, pc, unit,
                    cursors, backoffVars, tick, failures, ticks, register_sent >>
    /\ UNCHANGED << brokerVars, shutdown_sent, nft >>

(***************************************************************************)
(* The end of the tick: cursors, cache diff, execute or rollback.          *)
(***************************************************************************)
\* an update_cursors that moves the head to the last block with events only
CursorUpdateOfEvents(u) ==
    IF u.kind = "Range"
    THEN [head |-> IF u.transactions = << >> THEN cursors.head
                   ELSE u.transactions[Len(u.transactions)].block_number,
          last_block_timestamp |-> Timestamp(LastBlock(u)),
          last_pending_block_tx |-> NoTx, cursor_map |-> CursorMapOf(u)]
    ELSE [head |-> u.block_number - 1,
          last_block_timestamp |-> Timestamp(u.block_number),
          last_pending_block_tx |-> LastPendingTx(u), cursor_map |-> CursorMapOf(u)]

\* the arguments of update_cursors at the end of process_range / process_pending
CursorUpdateOf(u) ==
    IF u.kind = "Range"
    THEN [head |-> LastBlock(u), last_block_timestamp |-> Timestamp(LastBlock(u)),
          last_pending_block_tx |-> NoTx, cursor_map |-> CursorMapOf(u)]
    ELSE [head |-> u.block_number - 1,
          last_block_timestamp |-> Timestamp(u.block_number),
          last_pending_block_tx |-> LastPendingTx(u), cursor_map |-> CursorMapOf(u)]

\* process_tasks returned Ok: update_cursors, process returns Ok
UpdateCursors ==
    /\ pc = "process_tasks"
    /\ \A n \in 1..Len(tasks) : tasks[n].status = "done"
    /\ queue' = Append(queue, [Msg("UpdateCursors", tick) EXCEPT
                                  !.cursors = CursorUpdateOf(unit)])
    /\ tasks' = << >>
    /\ pc' = "apply_cache_diff"
    /\ UNCHANGED << chainVars, store, cacheVars, unit, cursors, backoffVars, tick,
                    failures, ticks, register_sent >>
    /\ UNCHANGED << brokerVars, shutdown_sent, nft >>

\* a task failed: in-flight tasks have drained, pending tasks are cleared and
\* process_tasks returns Err
ProcessTasksErr ==
    /\ pc = "process_tasks"
    /\ Failed # {}
    /\ Running = {}
    /\ tasks' = << >>
    /\ pc' = "rollback"
    /\ UNCHANGED << chainVars, store, queue, cacheVars, unit, cursors, backoffVars,
                    tick, failures, ticks, register_sent >>
    /\ UNCHANGED << brokerVars, shutdown_sent, nft >>

\* an apply_cache_diff that sends the cache and keeps its entries
ApplyCacheDiffKeeps ==
    /\ pc = "apply_cache_diff"
    /\ IF DOMAIN erc_cache # {}
       THEN /\ queue' = Append(queue, [Msg("ApplyBalanceDiff", tick) EXCEPT
                                          !.erc_cache = erc_cache])
            /\ UNCHANGED << erc_cache, observed >>
       ELSE UNCHANGED << queue, erc_cache, observed >>
    /\ pc' = "execute"
    /\ UNCHANGED << chainVars, store, token_id_registry, token_lock, tasks, unit,
                    cursors, backoffVars, tick, failures, ticks, register_sent >>
    /\ UNCHANGED << brokerVars, shutdown_sent, nft >>

\* Sql::apply_cache_diff
ApplyCacheDiff ==
    /\ pc = "apply_cache_diff"
    /\ IF DOMAIN erc_cache # {}
       THEN /\ queue' = Append(queue, [Msg("ApplyBalanceDiff", tick) EXCEPT
                                          !.erc_cache = erc_cache])
            /\ erc_cache' = << >>
            /\ observed' = << >>
       ELSE UNCHANGED << queue, erc_cache, observed >>
    /\ pc' = "execute"
    /\ UNCHANGED << chainVars, store, token_id_registry, token_lock, tasks, unit,
                    cursors, backoffVars, tick, failures, ticks, register_sent >>
    /\ UNCHANGED << brokerVars, shutdown_sent, nft >>

\* the bookkeeping of a commit of the messages msgs at the end of the tick
Committed(msgs) ==
    [t \in 1..Len(ticks) |->
        [ticks[t] EXCEPT
            !.outcome = IF t = tick THEN "ok" ELSE @,
            !.sent = IF t = tick THEN Count(queue, t) ELSE @,
            !.committed = @ + Count(msgs, t),
            !.commits = IF Count(msgs, t) > 0 THEN @ \cup {tick} ELSE @]]

\* Executor: execute() commits the open transaction
Execute ==
    /\ pc = "execute"
    /\ store' = ApplyAll(store, queue)
    /\ queue' = << >>
    /\ ticks' = Committed(queue)
    /\ pc' = "idle"
    /\ UNCHANGED << chainVars, cacheVars, tasks, unit, cursors, backoffVars, tick,
                    failures, register_sent >>
    /\ UNCHANGED << brokerVars, shutdown_sent, nft >>

\* an error branch that does not call rollback
RollbackSkipped ==
    /\ pc = "rollback"
    /\ tasks' = << >>
    /\ erroring_out' = TRUE
    /\ backoff_delay' = Backoff(backoff_delay)
    /\ ticks' = [ticks EXCEPT ![tick].outcome = "err", ![tick].sent = Count(queue, tick),
                              ![tick].slept = backoff_delay]
    /\ pc' = "idle"
    /\ UNCHANGED << chainVars, store, queue, cacheVars, unit, cursors, tick, failures,
                    register_sent >>
    /\ UNCHANGED << brokerVars, shutdown_sent, nft >>

\* an error branch that moves the cursors past the failed unit
RollbackSkipsUnit ==
    /\ pc = "rollback"
    /\ queue' = << >>
    /\ store' = ApplyMessage(store, [Msg("UpdateCursors", tick) EXCEPT
                                        !.cursors = CursorUpdateOf(unit)])
    /\ tasks' = << >>
    /\ erroring_out' = TRUE
    /\ backoff_delay' = Backoff(backoff_delay)
    /\ ticks' = [ticks EXCEPT ![tick].outcome = "err", ![tick].sent = Count(queue, tick),
                              ![tick].slept = backoff_delay]
    /\ pc' = "idle"
    /\ UNCHANGED << chainVars, cacheVars, unit, cursors, tick, failures, register_sent >>
    /\ UNCHANGED << brokerVars, shutdown_sent, nft >>

\* an error branch that does not call clear_tasks
RollbackKeepsTasks ==
    /\ pc = "rollback"
    /\ queue' = << >>
    /\ erroring_out' = TRUE
    /\ backoff_delay' = Backoff(backoff_delay)
    /\ ticks' = [ticks EXCEPT ![tick].outcome = "err", ![tick].sent = Count(queue, tick),
                              ![tick].slept = backoff_delay]
    /\ pc' = "idle"
    /\ UNCHANGED << chainVars, store, cacheVars, tasks, unit, cursors, tick, failures,
                    register_sent >>
    /\ UNCHANGED << brokerVars, shutdown_sent, nft >>

\* process returned Err: rollback, clear_tasks, back off
Rollback ==
    /\ pc = "rollback"
    /\ queue' = << >>
    /\ tasks' = << >>
    /\ erroring_out' = TRUE
    /\ backoff_delay' = Backoff(backoff_delay)
    /\ ticks' = [ticks EXCEPT ![tick].outcome = "err", ![tick].sent = Count(queue, tick),
                              ![tick].slept = backoff_delay]
    /\ pc' = "idle"
    /\ UNCHANGED << chainVars, store, cacheVars, unit, cursors, tick, failures,
                    register_sent >>
    /\ UNCHANGED << brokerVars, shutdown_sent, nft >>

(***************************************************************************)
(* Specification.                                                          *)
(***************************************************************************)
Tasks == 1..Len(tasks)

\* the steps of process_tasks and of the end of the tick
TaskStep ==
    \/ \E n \in Tasks : StartTask(n)
    \/ \E n \in Tasks : StoreDelRecordProcess(n)
    \/ \E n \in Tasks : RegisterModelProcess(n)
    \/ \E n \in Tasks : ControllerProcess(n)
    \/ \E n \in Tasks : GetTokenRegistrationLock(n)
    \/ \E n \in Tasks : LockRegistration(n)
    \/ \E n \in Tasks : BatchRequests(n)
    \/ \E n \in Tasks : SendRegister(n)
    \/ \E n \in Tasks : MarkTokenRegistered(n)
    \/ \E n \in Tasks : StoreErcTransferEvent(n)
    \/ \E n \in Tasks : UpdateErcCache(n)
    \/ UpdateCursors
    \/ ProcessTasksErr
    \/ ApplyCacheDiff
    \/ Execute
    \/ Rollback

\* the walk over the fetched unit: the outcomes of process up to process_tasks
WalkStep ==
    \/ ProcessNone
    \/ Enqueue
    \/ EnqueueErr
    \/ EnqueuePanic

\* the steps of the engine after its fetch has returned
TickStep ==
    \/ FetchErr
    \/ WalkStep
    \/ TaskStep

\* every step but the fetch of a tick
Step ==
    \/ MineBlock
    \/ AddPendingTx
    \/ FetchRaced
    \/ Shutdown
    \/ TickStep

Next == Fetch \/ Step

Spec == Init /\ [][Next]_vars

\* the provider answers from any node: its latest block may be behind the
\* block an earlier answer reported
FetchLagging ==
    \E lb \in 0..latest :
        FetchOk(lb, IF lb = latest THEN PendingTransactions
                    ELSE ChainOf(scenario, lb + 1))

NextLag == FetchLagging \/ Step

SpecLag == Init /\ [][NextLag]_vars

\* an engine on a chain whose tip does not move
InitLive ==
    /\ scenario \in 1..Len(Scenarios)
    /\ latest \in 0..MaxBlock
    /\ pending_len = 0
    /\ store = EmptyStore
    /\ queue = << >>
    /\ erc_cache = << >>
    /\ observed = << >>
    /\ token_id_registry = {}
    /\ token_lock = [t \in {Erc20Address} |-> NoLock]
    /\ tasks = << >>
    /\ pc = "idle"
    /\ unit = NoUnit
    /\ cursors = CursorsOf(EmptyStore)
    /\ backoff_delay = 1
    /\ erroring_out = FALSE
    /\ tick = 0
    /\ failures = 0
    /\ ticks = << >>
    /\ register_sent = {}
    /\ shutdown_sent = FALSE
    /\ nft = [pc |-> "none"]
    /\ subscribers = [id \in SubIds |-> NoSubscriber]
    /\ channels = << >>
    /\ publisher = IdlePublisher("event")
    /\ updater = IdleUpdater(0)

NextLive ==
    \/ Fetch
    \/ TickStep
    \/ SendShutdown
    \/ shutdown_sent /\ Shutdown

\* the engine task is scheduled until it returns, and select! polls its
\* branches in random order, so a signal that has been broadcast is not
\* passed over at every select. The weak fairness of the fetch and of the
\* walk is written with their enabling conditions in place of ENABLED.
SpecLive ==
    /\ InitLive
    /\ [][NextLive]_vars
    /\ ([]<>(~(pc = "idle" /\ tick < MaxTicks)) \/ []<><<Fetch \/ FetchErr>>_vars)
    /\ ([]<>(pc # "fetched") \/ []<><<WalkStep>>_vars)
    /\ WF_vars(TaskStep)
    /\ SF_vars(shutdown_sent /\ Shutdown)

(***************************************************************************)
(* Properties.                                                             *)
(***************************************************************************)
\* C1: tick atomicity. The messages a tick sent are committed all together,
\* by the one execute() of that tick when its process succeeded, and none of
\* them is ever committed when its process failed.
TickAtomicity ==
    \A t \in 1..Len(ticks) :
        /\ ticks[t].committed \in {0, ticks[t].sent}
        /\ ticks[t].outcome = "ok" =>
              /\ ticks[t].committed = ticks[t].sent
              /\ ticks[t].commits = {t}
        /\ ticks[t].outcome # "ok" =>
              /\ ticks[t].committed = 0
              /\ ticks[t].commits = {}

\* a failed tick that had sent writes, and a later tick that committed a
\* processor write, its cursors and its balance diff
TickAtomicityWitness ==
    \E t1, t2 \in 1..Len(ticks) :
        /\ t1 < t2
        /\ ticks[t1].outcome = "err"
        /\ ticks[t1].sent > 0
        /\ ticks[t2].outcome = "ok"
        /\ ticks[t2].committed >= 3

\* C2: after the rollback of a tick whose process failed the committed
\* cursors equal the cursors read at the start of that tick.
RollbackKeepsCursors ==
    (pc = "idle" /\ tick > 0 /\ ticks[tick].outcome = "err")
        => CursorsOf(store) = cursors

\* a tick that failed after sending writes, on top of committed cursors
RollbackKeepsCursorsWitness ==
    /\ pc = "idle"
    /\ tick > 0
    /\ ticks[tick].outcome = "err"
    /\ ticks[tick].sent > 0
    /\ store.head # NoHead
    /\ \E c \in DOMAIN contracts : store.cursor_map[c] # NoTx

\* C3: the committed head_block never decreases, for any latest block the
\* provider reports.
HeadNeverDecreases ==
    [][store.head # NoHead => store'.head >= store.head]_vars

RECURSIVE NetOfTransfers(_, _)
\* what the transfer rows S add to the balance of (address, token_id) k
NetOfTransfers(S, k) ==
    IF S = {} THEN 0
    ELSE LET r == CHOOSE y \in S : TRUE
         IN (IF r.to = k[1] /\ r.token_id = k[2] THEN r.amount ELSE 0)
            - (IF r.from = k[1] /\ r.token_id = k[2] THEN r.amount ELSE 0)
            + NetOfTransfers(S \ {r}, k)

\* the balance of (address, token_id) that the committed transfers amount to
BalanceOfTransfers(k) == NetOfTransfers(store.transfers, k)

\* the balance keys the committed transfers touch
KeysOfTransfers ==
    { k \in UNION { { << r.from, r.token_id >>, << r.to, r.token_id >> } :
                      r \in store.transfers } : k[1] # ZERO }

CommittedBalance(k) == IF k \in DOMAIN store.balances THEN store.balances[k] ELSE 0

\* C4: idempotent re-application. The committed balances are those of one
\* application of every committed transfer, also when a tick that had
\* handled some of the transfers was rolled back and the unit applied again.
IdempotentReapplication ==
    \A k \in KeysOfTransfers \cup DOMAIN store.balances :
        CommittedBalance(k) = BalanceOfTransfers(k)

\* C5: every token_id of an entry of an ApplyBalanceDiff message had a
\* Register*Token message sent to the executor before that message.
RegisterBeforeBalanceDiff ==
    \A i \in 1..Len(queue) :
        queue[i].type = "ApplyBalanceDiff" =>
            \A k \in DOMAIN queue[i].erc_cache : k[2] \in register_sent

\* an ApplyBalanceDiff message with entries behind the RegisterErc20Token
\* message of its token in the queue of one tick
RegisterBeforeBalanceDiffWitness ==
    \E i, j \in 1..Len(queue) :
        /\ i < j
        /\ queue[i].type = "RegisterErc20Token"
        /\ queue[j].type = "ApplyBalanceDiff"
        /\ \E k \in DOMAIN queue[j].erc_cache : k[2] = queue[i].token_id

\* C6: in every committed store state a token_id with a committed balance
\* diff has a committed registration.
BalanceHasRegistration ==
    \A k \in DOMAIN store.balances : k[2] \in store.tokens

\* Register*Token messages of a token in the open transaction
RegistersInQueue(t) ==
    { i \in 1..Len(queue) : queue[i].type = "RegisterErc20Token" /\ queue[i].token_id = t }

\* C7: single-flight registration. Concurrent transfer processors of one
\* not-yet-registered token send exactly one Register*Token message.
SingleFlightRegistration ==
    \A t \in DOMAIN token_lock :
        /\ Cardinality(RegistersInQueue(t)) <= 1
        /\ (\E n \in 1..Len(tasks) :
               /\ tasks[n].processor = "Erc20Transfer"
               /\ TokenIdOf(tasks[n].event) = t
               /\ tasks[n].status = "done") => t \in register_sent

Started(n) == tasks[n].status \in {"running", "done", "failed"}

\* two StoreDelRecord events of one model selector and entity id
SameRecord(a, b) ==
    /\ a.keys[1] = "StoreDelRecord"
    /\ b.keys[1] = "StoreDelRecord"
    /\ a.keys[2] = b.keys[2]
    /\ a.keys[3] = b.keys[3]

\* C8: two events of one tick with the same task identifier (as two
\* StoreDelRecord events of one model and entity) run serially in enqueue
\* order: the second does not start before the first has completed.
SameIdentifierSerial ==
    \A i, j \in 1..Len(tasks) :
        (i < j /\ (tasks[i].id = tasks[j].id \/ SameRecord(tasks[i].event, tasks[j].event)))
            => (Started(j) => tasks[i].status = "done")

\* the second of two tasks of one identifier runs, the first has completed
SameIdentifierSerialWitness ==
    \E i, j \in 1..Len(tasks) :
        /\ i < j
        /\ tasks[i].id = tasks[j].id
        /\ tasks[i].status = "done"
        /\ tasks[j].status = "running"
        /\ Config.max_concurrent_tasks > 1

\* C9: no task starts while a task whose id is in its dependency set is
\* pending or running; a StoreDelRecord task does not start before the task
\* with id hash(model_selector) has completed.
DependenciesCompleteFirst ==
    \A n, m \in 1..Len(tasks) :
        (/\ m # n
         /\ Started(n)
         /\ \/ tasks[m].id \in tasks[n].deps
            \/ /\ tasks[n].processor = "StoreDelRecord"
               /\ tasks[m].id = Hash(<< tasks[n].event.keys[2] >>))
            => tasks[m].status = "done"

\* a StoreDelRecord task runs after the task of its model has completed
\* while another task is still pending
DependenciesCompleteFirstWitness ==
    \E n, m \in 1..Len(tasks) :
        /\ tasks[n].processor = "StoreDelRecord"
        /\ tasks[n].status = "running"
        /\ tasks[m].id \in tasks[n].deps
        /\ tasks[m].status = "done"
        /\ \E o \in 1..Len(tasks) : tasks[o].status = "pending"

\* the positions of the queue that hold a write made for an event
EventWrites == { p \in 1..Len(queue) : Len(queue[p].event_id) = 3 }

\* the positions of the queue that hold a write of a processor
ProcessorWrites == { p \in EventWrites : queue[p].type # "StoreEvent" }

\* the event of the unit with the given event_id
EventById(eid) ==
    LET evs == EventsOfUnit(unit)
    IN evs[CHOOSE i \in 1..Len(evs) : evs[i].event_id = eid]

\* the original statement of C10: in a range tick every write for an event
\* of a block is submitted before every write for an event of a later block
WritesInBlockOrder ==
    unit.kind = "Range" =>
        \A p, q \in EventWrites :
            queue[p].event_id[1] < queue[q].event_id[1] => p < q

\* the write at q is ordered after the write at p by the task manager: same
\* task identifier, or the event of q depends on the identifier of p's
OrderedTasks(p, q) ==
    LET a == TaskOf(EventById(queue[p].event_id))
        b == TaskOf(EventById(queue[q].event_id))
    IN a.id = b.id \/ a.id \in b.deps

\* C10 (amended): in a range tick the events of a block are handed to
\* process_event (raw event stored, task added) before the events of every
\* later block, and the processor writes of two events of different blocks
\* are submitted in block order when the events have the same task
\* identifier or the later event depends on the identifier of the earlier.
DispatchInBlockOrder ==
    unit.kind = "Range" =>
        /\ \A i, j \in 1..Len(tasks) :
              tasks[i].event.block_number < tasks[j].event.block_number => i < j
        /\ \A p, q \in EventWrites \ ProcessorWrites :
              queue[p].event_id[1] < queue[q].event_id[1] => p < q
        /\ \A p, q \in ProcessorWrites :
              (/\ queue[p].event_id[1] < queue[q].event_id[1]
               /\ q < p) => ~OrderedTasks(p, q)

\* a range tick whose queue holds the processor writes of two events of
\* different blocks with one task identifier
DispatchInBlockOrderWitness ==
    /\ unit.kind = "Range"
    /\ \E p, q \in ProcessorWrites :
          /\ queue[p].event_id[1] < queue[q].event_id[1]
          /\ TaskOf(EventById(queue[p].event_id)).id = TaskOf(EventById(queue[q].event_id)).id
    /\ \E p, q \in ProcessorWrites :
          /\ queue[p].event_id[1] < queue[q].event_id[1]
          /\ TaskOf(EventById(queue[p].event_id)).id
                \in TaskOf(EventById(queue[q].event_id)).deps

(***************************************************************************)
(* Order of a FetchRangeResult.                                            *)
(***************************************************************************)
RECURSIVE IsSubseq(_, _)
\* s is t with some elements left out, the others in the order of t
IsSubseq(s, t) ==
    IF s = << >> THEN TRUE
    ELSE IF t = << >> THEN FALSE
    ELSE IF Head(s) = Head(t) THEN IsSubseq(Tail(s), Tail(t))
    ELSE IsSubseq(s, Tail(t))

\* the transaction of hash h in block b of the chain
ChainTx(b, h) ==
    LET block == ChainOf(scenario, b)
    IN block[CHOOSE i \in 1..Len(block) : block[i].transaction_hash = h]

\* C11: in every FetchRange the transactions of each block are listed in the
\* order they occur in the block and the events of each transaction in the
\* order the transaction emitted them.
ChainOrderInRange ==
    unit.kind = "Range" =>
        \A i \in 1..Len(unit.transactions) :
            LET b == unit.transactions[i].block_number
                txs == unit.transactions[i].txs
                block == ChainOf(scenario, b)
            IN /\ IsSubseq([j \in 1..Len(txs) |-> txs[j].transaction_hash],
                           [j \in 1..Len(block) |-> block[j].transaction_hash])
               /\ \A j \in 1..Len(txs) :
                      IsSubseq(txs[j].events,
                               EmittedOfTx(b, ChainTx(b, txs[j].transaction_hash)))

(***************************************************************************)
(* The backoff of the loop of Engine::start after failed fetches.          *)
(***************************************************************************)
RECURSIVE BackoffAfter(_)
\* backoff_delay after k consecutive failed ticks of a fresh engine
BackoffAfter(k) == IF k = 0 THEN 1 ELSE Backoff(BackoffAfter(k - 1))

\* the engine after k consecutive failed fetches (provider down since the
\* start): nothing fetched or written yet; the tick recorded is the last one
InitBackoff ==
    /\ scenario \in 1..Len(Scenarios)
    /\ latest \in 0..1
    /\ pending_len = 0
    /\ store = EmptyStore
    /\ queue = << >>
    /\ erc_cache = << >>
    /\ observed = << >>
    /\ token_id_registry = {}
    /\ token_lock = [t \in {Erc20Address} |-> NoLock]
    /\ tasks = << >>
    /\ pc = "idle"
    /\ unit = NoUnit
    /\ cursors = CursorsOf(EmptyStore)
    /\ \E k \in 1..MaxFetchErrors :
          /\ backoff_delay = BackoffAfter(k)
          /\ ticks = << [outcome |-> "fetch_err", sent |-> 0, committed |-> 0,
                         commits |-> {}, erroring |-> k > 1,
                         delay |-> BackoffAfter(k - 1),
                         slept |-> BackoffAfter(k - 1), events |-> {}] >>
    /\ erroring_out = TRUE
    /\ tick = 1
    /\ failures = 0
    /\ register_sent = {}
    /\ shutdown_sent = FALSE
    /\ nft = [pc |-> "none"]
    /\ subscribers = [id \in SubIds |-> NoSubscriber]
    /\ channels = << >>
    /\ publisher = IdlePublisher("event")
    /\ updater = IdleUpdater(0)

SpecBackoff == InitBackoff /\ [][Next]_vars

\* C13: the backoff delay never exceeds max_backoff_delay (60 s), neither the
\* delay kept for the next failure nor a delay that was slept.
BackoffBounded ==
    /\ backoff_delay <= max_backoff_delay
    /\ \A t \in 1..Len(ticks) : ticks[t].slept <= max_backoff_delay

\* C14: a failed tick (fetch or process) that follows a failed tick sleeps the
\* delay the earlier failures left: the delay is not reset inside a run of
\* consecutive failed ticks.
BackoffGrowsWhileFailing ==
    \A t \in 1..Len(ticks) :
        ticks[t].outcome \in {"err", "fetch_err"} /\ ticks[t].erroring
            => ticks[t].slept = ticks[t].delay

\* C15: a tick whose fetch yields None sends no write message, is not
\* followed by apply_cache_diff or execute and leaves the committed cursors
\* as the tick read them.
NoneTickWritesNothing ==
    (tick > 0 /\ ticks[tick].outcome # "fetch_err" /\ unit.kind = "None") =>
        /\ pc \in {"fetched", "idle", "stopped"}
        /\ Count(queue, tick) = 0
        /\ ticks[tick].sent = 0
        /\ ticks[tick].committed = 0
        /\ CursorsOf(store) = cursors

\* a None tick has ended on top of a committed head, PENDING_BLOCKS unset
NoneTickWritesNothingWitness ==
    /\ tick > 1
    /\ unit.kind = "None"
    /\ ticks[tick].outcome = "none"
    /\ ~Config.PENDING_BLOCKS
    /\ store.head # NoHead
    /\ ticks[tick - 1].outcome = "ok"

\* the first block of the range of the tick: the head read at its start or
\* world_block
FromOfTick == IF cursors.head = NoHead THEN Config.world_block ELSE cursors.head

DispatchedCommitted ==
    UNION { ticks[t].events : t \in { u \in 1..Len(ticks) : ticks[u].outcome = "ok" } }

\* the events the indexed contracts emitted in block b
EmittedIndexed(b) ==
    LET evs == SelectSeq(EmittedOfBlock(scenario, b),
                         LAMBDA e : e.from_address \in DOMAIN contracts)
    IN { << b, evs[i].transaction_hash, evs[i].from_address, evs[i].keys,
            evs[i].data >> : i \in 1..Len(evs) }

\* C17: after a committed range tick every event of an indexed contract in a
\* block from world_block to the committed head was handed to process_event
\* in that tick or in an earlier committed tick.
NoEventLeftBehind ==
    (pc = "idle" /\ tick > 0 /\ ticks[tick].outcome = "ok" /\ unit.kind = "Range") =>
        \A b \in Config.world_block..store.head :
            EmittedIndexed(b) \subseteq DispatchedCommitted

\* C18: an event that every processor registered for its key declines is
\* dropped like an event without processors: no tick ends in the panic of
\* process_event.
DeclinedEventIsDropped ==
    \A t \in 1..Len(ticks) : ticks[t].outcome # "expect_panic"

\* C19: between ticks the task manager is empty, also after a tick that
\* failed while enqueueing or in process_tasks, and every task the manager
\* holds or runs was enqueued by the current tick.
TasksClearedAfterFailure ==
    /\ pc \in {"idle", "fetched", "stopped"} => tasks = << >>
    /\ \A n \in 1..Len(tasks) : tasks[n].tick = tick

\* a tick failed after it had stored raw events and enqueued their tasks;
\* the next tick has run a task
TasksClearedAfterFailureWitness ==
    /\ tick > 1
    /\ ticks[tick - 1].outcome = "err"
    /\ ticks[tick - 1].sent > 0
    /\ pc = "process_tasks"
    /\ \E n \in 1..Len(tasks) : tasks[n].status = "done"

(***************************************************************************)
(* The subscription managers: EventManager and EntityManager with the      *)
(* publish_updates task of their Service.                                  *)
(***************************************************************************)
\* the clients whose add_subscriber call has returned the receiver
Registered == { c \in 1..Len(channels) : channels[c].registered }

\* the ids of the subscribers map
Subscribed == { id \in DOMAIN subscribers : subscribers[id] # NoSubscriber }

\* the orders in which an iteration of the subscribers map may visit its ids
IterationsOf(S) ==
    { o \in UNION { [1..k -> S] : k \in {Cardinality(S)} } :
        \A i, j \in DOMAIN o : i # j => o[i] # o[j] }

\* a channel without a sentinel: the subscriber is only created
AddSubscriberSilent(id, keys) ==
    /\ Len(channels) < MaxSubscribers
    /\ channels' = Append(channels,
          [id |-> id, keys |-> keys, buffer |-> << >>,
           received |-> << >>, receiver_open |-> TRUE, registered |-> FALSE,
           failed |-> 0])
    /\ UNCHANGED << engineVars, subscribers, publisher, updater >>

\* add_subscriber up to the write lock: the id is drawn, the channel created
\* and the sentinel sent into it
AddSubscriberSend(id, keys) ==
    /\ Len(channels) < MaxSubscribers
    /\ channels' = Append(channels,
          [id |-> id, keys |-> keys, buffer |-> << Sentinel(publisher.kind, id) >>,
           received |-> << >>, receiver_open |-> TRUE, registered |-> FALSE,
           failed |-> 0])
    /\ UNCHANGED << engineVars, subscribers, publisher, updater >>

\* an insert that does not wait for the write lock
AddSubscriberInsertUnlocked(c) ==
    /\ c \in 1..Len(channels)
    /\ ~channels[c].registered
    /\ subscribers' = [subscribers EXCEPT ![channels[c].id] =
                          [client |-> c, keys |-> channels[c].keys]]
    /\ channels' = [channels EXCEPT ![c].registered = TRUE]
    /\ UNCHANGED << engineVars, publisher, updater >>

\* add_subscriber takes the write lock, inserts the subscriber under its id
\* and returns the receiver
AddSubscriberInsert(c) ==
    /\ c \in 1..Len(channels)
    /\ ~channels[c].registered
    /\ publisher.pc # "loop"
    /\ subscribers' = [subscribers EXCEPT ![channels[c].id] =
                          [client |-> c, keys |-> channels[c].keys]]
    /\ channels' = [channels EXCEPT ![c].registered = TRUE]
    /\ UNCHANGED << engineVars, publisher, updater >>

\* the client takes the next message of its receiver
Receive(c) ==
    /\ c \in Registered
    /\ channels[c].receiver_open
    /\ channels[c].buffer # << >>
    /\ channels' = [channels EXCEPT ![c].received = Append(@, Head(channels[c].buffer)),
                                    ![c].buffer = Tail(@)]
    /\ UNCHANGED << engineVars, subscribers, publisher, updater >>

\* the client drops its receiver
Disconnect(c) ==
    /\ c \in Registered
    /\ channels[c].receiver_open
    /\ channels' = [channels EXCEPT ![c].receiver_open = FALSE]
    /\ UNCHANGED << engineVars, subscribers, publisher, updater >>

\* update_subscriber under the read lock: the id is not in the subscribers
\* map and the call returns
UpdateSubscriberNotFound(id, clause) ==
    /\ publisher.kind = "entity"
    /\ updater.pc = "idle"
    /\ updater.calls < MaxUpdates
    /\ subscribers[id] = NoSubscriber
    /\ updater' = IdleUpdater(updater.calls + 1)
    /\ UNCHANGED << engineVars, subscribers, channels, publisher >>

\* update_subscriber under the read lock: the sender of the subscriber is
\* cloned and the lock released
UpdateSubscriberLookup(id, clause) ==
    /\ publisher.kind = "entity"
    /\ updater.pc = "idle"
    /\ updater.calls < MaxUpdates
    /\ subscribers[id] # NoSubscriber
    /\ updater' = [pc |-> "insert", id |-> id, clause |-> clause,
                   sender |-> subscribers[id].client, calls |-> updater.calls + 1]
    /\ UNCHANGED << engineVars, subscribers, channels, publisher >>

\* an update that inserts a subscriber without the sender it has cloned
UpdateSubscriberInsertNoSender ==
    /\ updater.pc = "insert"
    /\ publisher.pc # "loop"
    /\ subscribers' = [subscribers EXCEPT ![updater.id] =
                          [client |-> 0, keys |-> updater.clause]]
    /\ updater' = IdleUpdater(updater.calls)
    /\ UNCHANGED << engineVars, channels, publisher >>

\* update_subscriber under the write lock: insert(id, {clause, sender})
UpdateSubscriberInsert ==
    /\ updater.pc = "insert"
    /\ publisher.pc # "loop"
    /\ subscribers' = [subscribers EXCEPT ![updater.id] =
                          [client |-> updater.sender, keys |-> updater.clause]]
    /\ updater' = IdleUpdater(updater.calls)
    /\ UNCHANGED << engineVars, channels, publisher >>

\* publish_updates receives a value that process_event / process_entity_update
\* parses: the iteration over the subscribers starts under the read lock
Publish(keys) ==
    /\ publisher.pc = "idle"
    /\ publisher.n < MaxEvents
    /\ \E order \in IterationsOf(Subscribed) :
          publisher' = [publisher EXCEPT !.pc = "loop", !.n = @ + 1, !.keys = keys,
                                         !.todo = order, !.closed_stream = {}]
    /\ UNCHANGED << engineVars, subscribers, channels, updater >>

\* publish_updates receives a value whose keys, id or transaction hash do not
\* parse: Err is returned before anything is sent and only logged
PublishErr ==
    /\ publisher.pc = "idle"
    /\ publisher.n < MaxEvents
    /\ publisher' = [publisher EXCEPT !.n = @ + 1]
    /\ UNCHANGED << engineVars, subscribers, channels, updater >>

\* a loop that uses try_send for the subscribers of both managers
DeliverTrySend ==
    /\ publisher.pc = "loop"
    /\ publisher.todo # << >>
    /\ LET idx == Head(publisher.todo)
           sub == subscribers[idx]
           c == sub.client
           full == Len(channels[c].buffer) >= SUBSCRIPTION_CHANNEL_SIZE
           resp == Response(publisher.kind, publisher.n, idx)
       IN IF ~match_keys(publisher.keys, sub.keys)
          THEN /\ publisher' = [publisher EXCEPT !.todo = Tail(@)]
               /\ UNCHANGED channels
          ELSE IF ~channels[c].receiver_open
          THEN /\ publisher' = [publisher EXCEPT !.todo = Tail(@),
                                                 !.closed_stream = @ \cup {idx}]
               /\ channels' = [channels EXCEPT ![c].failed =
                                  IF @ = 0 THEN publisher.n ELSE @]
          ELSE IF full
          THEN \* TrySendError::Full
               /\ publisher' = [publisher EXCEPT !.todo = Tail(@),
                                                 !.closed_stream = @ \cup {idx}]
               /\ channels' = [channels EXCEPT ![c].failed =
                                  IF @ = 0 THEN publisher.n ELSE @]
          ELSE /\ publisher' = [publisher EXCEPT !.todo = Tail(@)]
               /\ channels' = [channels EXCEPT ![c].buffer = Append(@, resp)]
    /\ UNCHANGED << engineVars, subscribers, updater >>

\* a loop that ends at the first subscriber whose sink is full or closed
DeliverUntilFailure ==
    /\ publisher.pc = "loop"
    /\ publisher.todo # << >>
    /\ LET idx == Head(publisher.todo)
           sub == subscribers[idx]
           c == sub.client
           full == Len(channels[c].buffer) >= SUBSCRIPTION_CHANNEL_SIZE
           resp == Response(publisher.kind, publisher.n, idx)
       IN IF ~match_keys(publisher.keys, sub.keys)
          THEN /\ publisher' = [publisher EXCEPT !.todo = Tail(@)]
               /\ UNCHANGED channels
          ELSE IF ~channels[c].receiver_open \/ full
          THEN /\ publisher' = [publisher EXCEPT !.todo = << >>,
                                                 !.closed_stream = @ \cup {idx}]
               /\ channels' = [channels EXCEPT ![c].failed =
                                  IF @ = 0 THEN publisher.n ELSE @]
          ELSE /\ publisher' = [publisher EXCEPT !.todo = Tail(@)]
               /\ channels' = [channels EXCEPT ![c].buffer = Append(@, resp)]
    /\ UNCHANGED << engineVars, subscribers, updater >>

\* one round of the loop over the subscribers: try_send of the event manager,
\* send().await of the entity manager
Deliver ==
    /\ publisher.pc = "loop"
    /\ publisher.todo # << >>
    /\ LET idx == Head(publisher.todo)
           sub == subscribers[idx]
           c == sub.client
           full == Len(channels[c].buffer) >= SUBSCRIPTION_CHANNEL_SIZE
           resp == Response(publisher.kind, publisher.n, idx)
       IN IF ~match_keys(publisher.keys, sub.keys)
          THEN /\ publisher' = [publisher EXCEPT !.todo = Tail(@)]
               /\ UNCHANGED channels
          ELSE IF ~channels[c].receiver_open
          THEN /\ publisher' = [publisher EXCEPT !.todo = Tail(@),
                                                 !.closed_stream = @ \cup {idx}]
               /\ channels' = [channels EXCEPT ![c].failed =
                                  IF @ = 0 THEN publisher.n ELSE @]
          ELSE IF full
          THEN \* TrySendError::Full; send().await waits for room
               /\ publisher.kind = "event"
               /\ publisher' = [publisher EXCEPT !.todo = Tail(@),
                                                 !.closed_stream = @ \cup {idx}]
               /\ channels' = [channels EXCEPT ![c].failed =
                                  IF @ = 0 THEN publisher.n ELSE @]
          ELSE /\ publisher' = [publisher EXCEPT !.todo = Tail(@)]
               /\ channels' = [channels EXCEPT ![c].buffer = Append(@, resp)]
    /\ UNCHANGED << engineVars, subscribers, updater >>

\* the loop has visited every subscriber: the read lock is released
LoopDone ==
    /\ publisher.pc = "loop"
    /\ publisher.todo = << >>
    /\ publisher' = [publisher EXCEPT !.pc = "remove"]
    /\ UNCHANGED << engineVars, subscribers, channels, updater >>

\* a publisher that forgets the ids of closed_stream
RemoveSkipped(id) ==
    /\ publisher.pc = "remove"
    /\ id \in publisher.closed_stream
    /\ publisher' = [publisher EXCEPT !.closed_stream = @ \ {id}]
    /\ UNCHANGED << engineVars, subscribers, channels, updater >>

\* remove_subscriber(id) for an id of closed_stream
Remove(id) ==
    /\ publisher.pc = "remove"
    /\ id \in publisher.closed_stream
    /\ subscribers' = [subscribers EXCEPT ![id] = NoSubscriber]
    /\ publisher' = [publisher EXCEPT !.closed_stream = @ \ {id}]
    /\ UNCHANGED << engineVars, channels, updater >>

\* process_event / process_entity_update returns Ok
PublishDone ==
    /\ publisher.pc = "remove"
    /\ publisher.closed_stream = {}
    /\ publisher' = [publisher EXCEPT !.pc = "idle"]
    /\ UNCHANGED << engineVars, subscribers, channels, updater >>

\* an engine that has not started, with the manager of events or of entities
InitBroker ==
    /\ scenario = 1
    /\ latest = 0
    /\ pending_len = 0
    /\ store = EmptyStore
    /\ queue = << >>
    /\ erc_cache = << >>
    /\ observed = << >>
    /\ token_id_registry = {}
    /\ token_lock = [t \in {Erc20Address} |-> NoLock]
    /\ tasks = << >>
    /\ pc = "idle"
    /\ unit = NoUnit
    /\ cursors = CursorsOf(EmptyStore)
    /\ backoff_delay = 1
    /\ erroring_out = FALSE
    /\ tick = 0
    /\ failures = 0
    /\ ticks = << >>
    /\ register_sent = {}
    /\ shutdown_sent = FALSE
    /\ nft = [pc |-> "none"]
    /\ subscribers = [id \in SubIds |-> NoSubscriber]
    /\ channels = << >>
    /\ \E kind \in {"event", "entity"} : publisher = IdlePublisher(kind)
    /\ updater = IdleUpdater(0)

NextBroker ==
    \/ \E id \in SubIds, keys \in KeysClauses : AddSubscriberSend(id, keys)
    \/ \E c \in 1..MaxSubscribers : AddSubscriberInsert(c)
    \/ \E c \in 1..MaxSubscribers : Receive(c)
    \/ \E c \in 1..MaxSubscribers : Disconnect(c)
    \/ \E keys \in EventKeys : Publish(keys)
    \/ PublishErr
    \/ Deliver
    \/ LoopDone
    \/ \E id \in SubIds : Remove(id)
    \/ PublishDone
    \/ \E id \in SubIds, clause \in UpdateClauses : UpdateSubscriberNotFound(id, clause)
    \/ \E id \in SubIds, clause \in UpdateClauses : UpdateSubscriberLookup(id, clause)
    \/ UpdateSubscriberInsert

SpecBroker == InitBroker /\ [][NextBroker]_vars

(***************************************************************************)
(* Two subscribers of one manager and a third add_subscriber call that has *)
(* sent its sentinel and waits for the write lock.                         *)
(***************************************************************************)
\* subscriber 1 takes the key k1, subscriber 2 every key; the sentinel of
\* each is in its channel
InitPair ==
    /\ scenario = 1
    /\ latest = 0
    /\ pending_len = 0
    /\ store = EmptyStore
    /\ queue = << >>
    /\ erc_cache = << >>
    /\ observed = << >>
    /\ token_id_registry = {}
    /\ token_lock = [t \in {Erc20Address} |-> NoLock]
    /\ tasks = << >>
    /\ pc = "idle"
    /\ unit = NoUnit
    /\ cursors = CursorsOf(EmptyStore)
    /\ backoff_delay = 1
    /\ erroring_out = FALSE
    /\ tick = 0
    /\ failures = 0
    /\ ticks = << >>
    /\ register_sent = {}
    /\ shutdown_sent = FALSE
    /\ nft = [pc |-> "none"]
    /\ \E kind \in {"event", "entity"} :
          /\ publisher = IdlePublisher(kind)
          /\ channels = [c \in 1..3 |->
                [id |-> c, keys |-> IF c = 2 THEN "any" ELSE "k1",
                 buffer |-> << Sentinel(kind, c) >>, received |-> << >>,
                 receiver_open |-> TRUE, registered |-> c < 3, failed |-> 0]]
    /\ subscribers = [id \in 1..3 |->
                         IF id < 3
                         THEN [client |-> id, keys |-> IF id = 2 THEN "any" ELSE "k1"]
                         ELSE NoSubscriber]
    /\ updater = IdleUpdater(0)

NextPair ==
    \/ \E c \in 1..3 : AddSubscriberInsert(c)
    \/ \E c \in 1..3 : Receive(c)
    \/ \E c \in 1..3 : Disconnect(c)
    \/ \E keys \in EventKeys : Publish(keys)
    \/ PublishErr
    \/ Deliver
    \/ LoopDone
    \/ \E id \in 1..3 : Remove(id)
    \/ PublishDone

SpecPair == InitPair /\ [][NextPair]_vars

\* C12: an event subscriber whose try_send failed (sink full or closed) is
\* out of the subscribers map before the next event is published, and no
\* later event reaches its channel.
SlowSubscriberEvicted ==
    \A c \in 1..Len(channels) :
        (publisher.kind = "event" /\ channels[c].failed # 0) =>
            /\ \A i \in 1..Len(channels[c].received \o channels[c].buffer) :
                  (channels[c].received \o channels[c].buffer)[i].n < channels[c].failed
            /\ (publisher.n > channels[c].failed \/ publisher.pc = "idle") =>
                  \A id \in SubIds : subscribers[id].client # c

\* the sink of an event subscriber was full at a publish; a later value was
\* published and the client, still connected, has read what its channel held
SlowSubscriberEvictedWitness ==
    \E c \in 1..Len(channels) :
        /\ publisher.kind = "event"
        /\ channels[c].failed # 0
        /\ channels[c].receiver_open
        /\ publisher.n > channels[c].failed
        /\ publisher.pc = "idle"
        /\ channels[c].received # << >>
        /\ channels[c].buffer = << >>

\* C20: the first message of the channel of every subscriber is the sentinel,
\* for an entity subscriber with the id under which it is registered, and
\* every published update comes after it.
SentinelFirst ==
    \A c \in 1..Len(channels) :
        LET all == channels[c].received \o channels[c].buffer
        IN /\ (channels[c].registered \/ all # << >>) =>
                 /\ all # << >>
                 /\ all[1] = Sentinel(publisher.kind, channels[c].id)
           /\ \A i \in 2..Len(all) : all[i].n > 0

\* an entity subscriber has received the sentinel and then an update that
\* carries the same subscription id
SentinelFirstWitness ==
    \E c \in 1..Len(channels) :
        /\ publisher.kind = "entity"
        /\ Len(channels[c].received) >= 2
        /\ channels[c].received[1].n = 0
        /\ channels[c].received[2].n > 0
        /\ channels[c].received[2].subscription_id = channels[c].received[1].subscription_id

EntityFullSinkWaits ==
    [][publisher.kind = "entity" =>
          /\ \A c \in 1..Len(channels') :
                channels'[c].failed # 0 => ~channels'[c].receiver_open
          /\ \A id \in publisher'.closed_stream :
                \E c \in 1..Len(channels') :
                    channels'[c].id = id /\ channels'[c].failed # 0
          /\ \A id \in SubIds :
                (subscribers[id] # NoSubscriber /\ subscribers'[id] = NoSubscriber) =>
                    publisher.pc = "remove" /\ id \in publisher.closed_stream
          /\ (publisher.pc = "loop" /\ publisher'.pc = "remove") =>
                \A id \in Subscribed :
                    LET c == subscribers[id].client
                        all == channels[c].received \o channels[c].buffer
                    IN match_keys(publisher.keys, subscribers[id].keys) =>
                          \/ ~channels[c].receiver_open
                          \/ \E i \in 1..Len(all) :
                                all[i] = Response("entity", publisher.n, id)]_vars

\* the publisher of entities is at a subscriber whose clause matches and whose
\* sink is full: the receiver is open and the subscriber is in the map
EntityFullSinkWaitsWitness ==
    /\ publisher.kind = "entity"
    /\ publisher.pc = "loop"
    /\ publisher.todo # << >>
    /\ LET idx == Head(publisher.todo)
           c == subscribers[idx].client
       IN /\ match_keys(publisher.keys, subscribers[idx].keys)
          /\ channels[c].receiver_open
          /\ Len(channels[c].buffer) >= SUBSCRIPTION_CHANNEL_SIZE
          /\ channels[c].received # << >>

fetch_token_uri(calls, value, uri) ==
    IF \A i \in 1..3 : calls[i] = "err"
    THEN [ok |-> TRUE, value |-> ""]
    ELSE CASE value = "byte_array" -> [ok |-> TRUE, value |-> uri]
           [] value = "byte_array_not_utf8" -> [ok |-> FALSE, value |-> "FromUtf8"]
           [] value = "felt_array" -> [ok |-> TRUE, value |-> uri]
           [] value = "felt_array_not_short_string" ->
                 [ok |-> FALSE, value |-> "ParseCairoShortString"]
           [] OTHER -> [ok |-> TRUE, value |-> ""]

\* fetch_token_metadata: Ok(metadata), Err, or the panic of
\* strip_prefix("ipfs://").unwrap() in fetch_metadata
fetch_token_metadata(calls, value, uri, content) ==
    LET token_uri == fetch_token_uri(calls, value, uri)
    IN IF ~token_uri.ok THEN [result |-> "Err", metadata |-> token_uri.value]
       ELSE IF token_uri.value = "" THEN [result |-> "Ok", metadata |-> ""]
       ELSE IF token_uri.value = "ipfs:" THEN [result |-> "panic", metadata |-> ""]
       ELSE IF token_uri.value \in {"http://", "ipfs://", "data:"} /\ content = "json"
       THEN [result |-> "Ok", metadata |-> "json"]
       ELSE [result |-> "Ok", metadata |-> ""]

\* handle_nft_transfer for a token that is not registered: the token is
\* registered with the metadata and the transfer stored, or the error of
\* try_register_nft_token_metadata is returned
HandleNftTransfer ==
    /\ nft.pc = "start"
    /\ LET fetched == fetch_token_metadata(nft.calls, nft.value, nft.uri, nft.content)
       IN nft' = [nft EXCEPT !.pc = "done",
                             !.result = fetched.result,
                             !.registered = fetched.result = "Ok",
                             !.metadata = IF fetched.result = "Ok" THEN fetched.metadata
                                          ELSE "none",
                             !.transfer_stored = fetched.result = "Ok"]
    /\ UNCHANGED << scenario, latest, pending_len, store, queue, erc_cache, observed,
                    token_id_registry, token_lock, tasks, pc, unit, cursors,
                    backoff_delay, erroring_out, tick, failures, ticks,
                    register_sent, shutdown_sent >>
    /\ UNCHANGED brokerVars

\* a transfer of a token that is not registered, for every answer of the
\* contract and of the location of the metadata
InitNft ==
    /\ scenario = 1
    /\ latest = 0
    /\ pending_len = 0
    /\ store = EmptyStore
    /\ queue = << >>
    /\ erc_cache = << >>
    /\ observed = << >>
    /\ token_id_registry = {}
    /\ token_lock = [t \in {Erc20Address} |-> NoLock]
    /\ tasks = << >>
    /\ pc = "idle"
    /\ unit = NoUnit
    /\ cursors = CursorsOf(EmptyStore)
    /\ backoff_delay = 1
    /\ erroring_out = FALSE
    /\ tick = 0
    /\ failures = 0
    /\ ticks = << >>
    /\ register_sent = {}
    /\ shutdown_sent = FALSE
    /\ subscribers = [id \in SubIds |-> NoSubscriber]
    /\ channels = << >>
    /\ publisher = IdlePublisher("event")
    /\ updater = IdleUpdater(0)
    /\ \E calls \in [1..3 -> {"ok", "err"}],
          value \in {"byte_array", "byte_array_not_utf8", "felt_array",
                     "felt_array_not_short_string", "neither"},
          uri \in {"", "http://", "ipfs://", "ipfs:", "data:", "ftp://"},
          content \in {"json", "not_json", "unreachable", "not_data_url",
                       "text/plain", "not_base64"} :
          nft = [pc |-> "start", calls |-> calls, value |-> value, uri |-> uri,
                 content |-> content, result |-> "none", registered |-> FALSE,
                 metadata |-> "none", transfer_stored |-> FALSE]

SpecNft == InitNft /\ [][HandleNftTransfer]_vars

\* C24: whatever the token-URI calls return and whatever is found at the
\* URI, handle_nft_transfer returns Ok with the token registered (with empty
\* metadata when the metadata could not be fetched or decoded) and the
\* transfer stored.
MetadataFailureIsLocal ==
    nft.pc = "done" =>
        /\ nft.result = "Ok"
        /\ nft.registered
        /\ nft.transfer_stored
        /\ (nft.content # "json" => nft.metadata = "")

HeadReachesTip ==
    (store.head # NoHead /\ store.head < latest) ~>
        \/ store.head = latest
        \/ failures > 0
        \/ \E t \in 1..Len(ticks) : ticks[t].outcome \in {"err", "fetch_err"}
        \/ pc \in {"stopped", "panicked"}

\* two ticks without a failure have moved the head to the tip, the second
\* over a range in which no indexed contract has emitted an event
HeadReachesTipWitness ==
    /\ pc = "idle"
    /\ failures = 0
    /\ tick = 2
    /\ ticks[1].outcome = "ok"
    /\ ticks[2].outcome = "ok"
    /\ ticks[2].events = {}
    /\ unit.kind = "Range"
    /\ store.head = latest
    /\ latest = MaxBlock

\* C27: for each contract, fetch_events called for the range of the tick
\* returns exactly the events of the contract in the blocks from..to that
\* come after the last event of the transaction of its cursor in the event
\* stream of the contract, and all its events in from..to when it has no
\* cursor.
FetchEventsAfterCursor ==
    (pc = "fetched" /\ unit.kind = "Range") =>
        \A c \in DOMAIN contracts :
            LET from == IF FromOfTick = 0 THEN 0 ELSE FromOfTick + 1
                to == Min(latest, FromOfTick + Config.blocks_chunk_size)
                stream == EventStream(scenario, c, 0, latest)
                last_tx == cursors.cursor_map[c]
                of_last_tx == { i \in 1..Len(stream) : stream[i].transaction_hash = last_tx }
                after == IF of_last_tx = {} THEN 0
                         ELSE CHOOSE i \in of_last_tx : \A j \in of_last_tx : j <= i
            IN fetch_events(scenario, << [contract |-> c, page |-> 0] >>,
                            cursors.cursor_map, to, from, latest)
                 = SelectSeq(SubSeq(stream, after + 1, Len(stream)),
                             LAMBDA e : from <= e.block_number /\ e.block_number <= to)

\* C28: the range fetched while no head is committed holds every event that
\* an indexed contract has emitted in block world_block.
WorldBlockInFirstRange ==
    (pc = "fetched" /\ unit.kind = "Range" /\ cursors.head = NoHead) =>
        \A c \in DOMAIN contracts :
            LET emitted == EventStream(scenario, c, Config.world_block, Config.world_block)
            IN \A i \in 1..Len(emitted) :
                  \E b \in 1..Len(unit.transactions) :
                      \E t \in 1..Len(unit.transactions[b].txs) :
                          LET tx == unit.transactions[b].txs[t]
                          IN /\ unit.transactions[b].block_number = Config.world_block
                             /\ tx.transaction_hash = emitted[i].transaction_hash
                             /\ \E k \in 1..Len(tx.events) : tx.events[k] = emitted[i]

\* C29: no event is dispatched in two committed ticks, and a fetched range
\* holds no block at or below the committed head.
NoEventDispatchedTwice ==
    /\ \A t1, t2 \in 1..Len(ticks) :
          (t1 < t2 /\ ticks[t1].outcome = "ok" /\ ticks[t2].outcome = "ok") =>
              ticks[t1].events \cap ticks[t2].events = {}
    /\ (unit.kind = "Range" /\ pc = "fetched" /\ cursors.head # NoHead) =>
          \A b \in unit.blocks : b > cursors.head

\* a committed tick on the pending block was followed by a committed range
\* over that block, and both have dispatched events of the block
NoEventDispatchedTwiceWitness ==
    /\ pc = "idle"
    /\ unit.kind = "Range"
    /\ \E t \in 1..(tick - 1) :
          /\ ticks[t].outcome = "ok"
          /\ ticks[tick].outcome = "ok"
          /\ \E e1 \in ticks[t].events, e2 \in ticks[tick].events :
                e1[1] = e2[1] /\ e1[1] > FromOfTick

\* C30: a tick on the pending block walks exactly the transactions that come
\* after last_pending_block_tx, in block order (all of them without one); a
\* committed tick on the pending block shares no transaction of that block
\* with an earlier committed tick, and after it every event of the pending
\* block it fetched has been dispatched by a committed tick and the cursor is
\* the last transaction of that block.
PendingAfterLastTx ==
    /\ (pc = "fetched" /\ unit.kind = "Pending") =>
          LET txs == unit.pending_block
              c == unit.last_pending_block_tx
              walked == ProcessedTxs(unit)
          IN /\ c # NoTx => \E k \in 1..Len(txs) : txs[k].transaction_hash = c
             /\ \E k \in 0..Len(txs) :
                   /\ (k = 0) <=> (c = NoTx)
                   /\ k > 0 => txs[k].transaction_hash = c
                   /\ [j \in 1..Len(walked) |-> walked[j].transaction_hash]
                        = [j \in 1..(Len(txs) - k) |-> txs[k + j].transaction_hash]
    /\ (pc = "idle" /\ unit.kind = "Pending" /\ tick > 0 /\ ticks[tick].outcome = "ok") =>
          LET txs == unit.pending_block
              done == UNION { ticks[t].events :
                                t \in { u \in 1..Len(ticks) : ticks[u].outcome = "ok" } }
          IN /\ \A t \in 1..(tick - 1) : ticks[t].outcome = "ok" =>
                   \A e1 \in ticks[t].events, e2 \in ticks[tick].events :
                      ~(e1[1] = e2[1] /\ e1[2] = e2[2])
             /\ \A j \in 1..Len(txs) : \A i \in 1..Len(txs[j].events) :
                   txs[j].events[i].from_address \in DOMAIN contracts =>
                      << unit.block_number, txs[j].transaction_hash,
                         txs[j].events[i].from_address, txs[j].events[i].keys,
                         txs[j].events[i].data >> \in done
             /\ txs # << >> =>
                   store.last_pending_block_tx = txs[Len(txs)].transaction_hash

\* a committed tick on the pending block, a transaction appended to the block,
\* and a second committed tick that has dispatched the appended transaction only
PendingAfterLastTxWitness ==
    /\ pc = "idle"
    /\ unit.kind = "Pending"
    /\ unit.last_pending_block_tx # NoTx
    /\ Len(unit.pending_block) = 2
    /\ unit.pending_block[1].transaction_hash = unit.last_pending_block_tx
    /\ ticks[tick].outcome = "ok"
    /\ \E t \in 1..(tick - 1) :
          /\ ticks[t].outcome = "ok"
          /\ \E e \in ticks[t].events : e[2] = unit.pending_block[1].transaction_hash
    /\ ticks[tick].events # {}
    /\ \A e \in ticks[tick].events : e[2] = unit.pending_block[2].transaction_hash

\* C31: the UpdateCursors message of a tick on the pending block carries
\* head = block_number - 1, the latest mined block, and as last_pending_block_tx
\* the last transaction of the pending block when the tick has walked one, the
\* last_pending_block_tx it was fetched with otherwise.
PendingCursorsMessage ==
    (pc = "apply_cache_diff" /\ unit.kind = "Pending") =>
        LET m == queue[Len(queue)]
            txs == unit.pending_block
            c == unit.last_pending_block_tx
            walked_none == \/ txs = << >>
                           \/ c # NoTx /\ txs[Len(txs)].transaction_hash = c
                           \/ c # NoTx /\ \A k \in 1..Len(txs) : txs[k].transaction_hash # c
        IN /\ queue # << >>
           /\ m.type = "UpdateCursors"
           /\ m.tick = tick
           /\ Cardinality({ i \in 1..Len(queue) :
                              queue[i].type = "UpdateCursors" /\ queue[i].tick = tick }) = 1
           /\ m.cursors.head = unit.block_number - 1
           /\ m.cursors.head = latest
           /\ m.cursors.last_pending_block_tx =
                 IF walked_none THEN c ELSE txs[Len(txs)].transaction_hash

\* a tick on the pending block that walks no transaction sends the
\* last_pending_block_tx of the tick before it
PendingCursorsMessageWitness ==
    /\ pc = "apply_cache_diff"
    /\ unit.kind = "Pending"
    /\ unit.last_pending_block_tx # NoTx
    /\ unit.pending_block # << >>
    /\ unit.pending_block[Len(unit.pending_block)].transaction_hash
          = unit.last_pending_block_tx
    /\ queue[Len(queue)].cursors.last_pending_block_tx = unit.last_pending_block_tx
    /\ queue[Len(queue)].cursors.head = latest

\* C32: the cursor map sent at the end of process_range has an entry exactly
\* for the indexed contracts with an event in the unit, and the entry of a
\* contract holds the last transaction, in processing order, with one of its
\* events and the number of distinct transactions of the unit with one.
RangeCursorMap ==
    (pc = "apply_cache_diff" /\ unit.kind = "Range") =>
        LET cm == queue[Len(queue)].cursors.cursor_map
            \* positions (block index, transaction index) of the unit, walked
            \* in increasing order
            positions == UNION { { << b, t >> : t \in 1..Len(unit.transactions[b].txs) } :
                                    b \in 1..Len(unit.transactions) }
            emits(p, c) == \E k \in 1..Len(unit.transactions[p[1]].txs[p[2]].events) :
                              unit.transactions[p[1]].txs[p[2]].events[k].from_address = c
            of(c) == { p \in positions : emits(p, c) }
            last(c) == CHOOSE p \in of(c) :
                          \A q \in of(c) : q[1] < p[1] \/ (q[1] = p[1] /\ q[2] <= p[2])
        IN /\ queue # << >>
           /\ queue[Len(queue)].type = "UpdateCursors"
           /\ DOMAIN cm = { c \in DOMAIN contracts : of(c) # {} }
           /\ \A c \in DOMAIN cm :
                 /\ cm[c][1] = unit.transactions[last(c)[1]].txs[last(c)[2]].transaction_hash
                 /\ cm[c][2] = Cardinality({ unit.transactions[p[1]].txs[p[2]].transaction_hash :
                                               p \in of(c) })

\* a range with two transactions of one contract, and an indexed contract
\* without event in it
RangeCursorMapWitness ==
    /\ pc = "apply_cache_diff"
    /\ unit.kind = "Range"
    /\ queue # << >>
    /\ queue[Len(queue)].type = "UpdateCursors"
    /\ \E c \in DOMAIN queue[Len(queue)].cursors.cursor_map :
          queue[Len(queue)].cursors.cursor_map[c][2] = 2
    /\ \E c \in DOMAIN contracts : c \notin DOMAIN queue[Len(queue)].cursors.cursor_map

CacheDrainedOnce ==
    /\ [](pc = "apply_cache_diff" =>
             /\ tasks = << >>
             /\ unit.kind # "None"
             /\ ticks[tick].outcome = "running"
             /\ queue # << >> /\ queue[Len(queue)].type = "UpdateCursors"
             /\ queue[Len(queue)].tick = tick)
    /\ [](pc = "execute" =>
             /\ erc_cache = << >>
             /\ Cardinality({ i \in 1..Len(queue) :
                                queue[i].type = "ApplyBalanceDiff" }) <= 1
             /\ \A i \in 1..Len(queue) : queue[i].type = "ApplyBalanceDiff" =>
                   i = Len(queue) /\ queue[i].tick = tick /\ DOMAIN queue[i].erc_cache # {})
    /\ [][pc = "apply_cache_diff" =>
             IF DOMAIN erc_cache # {}
             THEN /\ Len(queue') = Len(queue) + 1
                  /\ SubSeq(queue', 1, Len(queue)) = queue
                  /\ queue'[Len(queue')].type = "ApplyBalanceDiff"
                  /\ queue'[Len(queue')].erc_cache = erc_cache
                  /\ erc_cache' = << >>
             ELSE queue' = queue /\ erc_cache' = erc_cache]_vars
    /\ [][pc = "execute" =>
             LET diffs == { i \in 1..Len(queue) : queue[i].type = "ApplyBalanceDiff" }
                 Bal(st, k) == IF k \in DOMAIN st.balances THEN st.balances[k] ELSE 0
                 keys == DOMAIN store.balances \cup DOMAIN store'.balances
                            \cup UNION { DOMAIN queue[i].erc_cache : i \in diffs }
             IN \A k \in keys :
                   Bal(store', k) - Bal(store, k) =
                      IF \E i \in diffs : k \in DOMAIN queue[i].erc_cache
                      THEN queue[Len(queue)].erc_cache[k] ELSE 0]_vars

\* a drain of a cache with the deltas of two transfers: one message with the
\* three entries, the cache empty
CacheDrainedOnceWitness ==
    /\ pc = "execute"
    /\ queue # << >>
    /\ queue[Len(queue)].type = "ApplyBalanceDiff"
    /\ Cardinality(DOMAIN queue[Len(queue)].erc_cache) = 3
    /\ erc_cache = << >>

\* C35: an id that is not in the entity subscriber table enters it only by
\* the insert of add_subscriber: no update_subscriber puts back a subscriber
\* that a removal has taken out.
RemovedStaysRemoved ==
    [][\A id \in SubIds :
          (publisher.kind = "entity" /\ subscribers[id] = NoSubscriber
             /\ subscribers'[id] # NoSubscriber) =>
                /\ ~channels[subscribers'[id].client].registered
                /\ channels'[subscribers'[id].client].registered]_vars

EventDeliveryIndependent ==
    /\ []((publisher.kind = "event" /\ publisher.pc = "loop" /\ publisher.todo # << >>)
             => ENABLED Deliver)
    /\ [](publisher.kind = "event" =>
             \A c \in 1..Len(channels) :
                LET got == channels[c].received \o channels[c].buffer
                IN \A i, j \in 1..Len(got) : i < j => got[i].n < got[j].n)
    /\ [][(publisher.kind = "event" /\ publisher.pc = "loop"
             /\ publisher.todo # << >> /\ publisher' # publisher) =>
             LET idx == Head(publisher.todo)
                 sub == subscribers[idx]
                 c == sub.client
                 room == /\ channels[c].receiver_open
                         /\ Len(channels[c].buffer) < SUBSCRIPTION_CHANNEL_SIZE
             IN /\ publisher'.pc = "loop"
                /\ publisher'.todo = Tail(publisher.todo)
                /\ \A d \in 1..Len(channels) : d # c => channels'[d] = channels[d]
                /\ IF match_keys(publisher.keys, sub.keys) /\ room
                   THEN /\ channels'[c].buffer =
                              Append(channels[c].buffer, Response("event", publisher.n, idx))
                        /\ publisher'.closed_stream = publisher.closed_stream
                   ELSE /\ channels'[c].buffer = channels[c].buffer
                        /\ publisher'.closed_stream =
                              IF match_keys(publisher.keys, sub.keys)
                              THEN publisher.closed_stream \cup {idx}
                              ELSE publisher.closed_stream]_vars
    /\ [][(publisher.kind = "event" /\ publisher.pc = "loop" /\ publisher'.pc = "remove") =>
             \A id \in Subscribed :
                (match_keys(publisher.keys, subscribers[id].keys)
                    /\ id \notin publisher.closed_stream) =>
                   LET got == channels[subscribers[id].client].received
                                 \o channels[subscribers[id].client].buffer
                   IN Cardinality({ i \in 1..Len(got) : got[i].n = publisher.n }) = 1]_vars

\* a publish has found the sink of one matching subscriber full and has
\* delivered the event to the other one
EventDeliveryIndependentWitness ==
    /\ publisher.kind = "event"
    /\ publisher.pc = "remove"
    /\ \E a, b \in Subscribed :
          /\ a # b
          /\ a \in publisher.closed_stream
          /\ channels[subscribers[a].client].receiver_open
          /\ match_keys(publisher.keys, subscribers[b].keys)
          /\ b \notin publisher.closed_stream
          /\ \E i \in 1..Len(channels[subscribers[b].client].buffer) :
                channels[subscribers[b].client].buffer[i].n = publisher.n

\* C38: the controller processor handles an event that has passed validate
\* and does not carry the Cartridge magic (calldata, the data after its first
\* five felts, shorter than 25 felts, a length felt other than 22, or other
\* felts than the magic) by returning Ok: the task is done, nothing is sent
\* and the engine goes on.
ControllerIgnoresOtherDeployments ==
    [][\A n \in 1..Len(tasks) :
          (/\ pc = "process_tasks"
           /\ tasks[n].status = "running"
           /\ tasks[n].step = "process"
           /\ tasks[n].processor = "Controller"
           /\ LET data == tasks[n].event.data
                  calldata == IF Len(data) > 5 THEN SubSeq(data, 6, Len(data)) ELSE << >>
              IN /\ Len(tasks[n].event.keys) = 1
                 /\ data # << >>
                 /\ \/ Len(calldata) < 25
                    \/ calldata[3] # 22
                    \/ SubSeq(calldata, 4, 25) # CARTRIDGE_MAGIC
           /\ (pc' # pc \/ (Len(tasks') >= n /\ tasks'[n] # tasks[n])))
             => /\ pc' = pc
                /\ queue' = queue
                /\ Len(tasks') = Len(tasks)
                /\ tasks'[n].status = "done"]_vars

\* C39: the blocks map of every FetchRange is not empty, holds the block `to`
\* of the range and the block number of every entry of its transactions, and
\* no block above `to`: the lookups of process_range and the last key taken
\* by block_id and process_range exist, and the last key is `to`.
RangeBlocksComplete ==
    unit.kind = "Range" =>
        LET to == Min(latest, FromOfTick + Config.blocks_chunk_size)
        IN /\ unit.blocks # {}
           /\ \A i \in 1..Len(unit.transactions) :
                 /\ unit.transactions[i].block_number \in unit.blocks
                 /\ unit.transactions[i].txs # << >>
           /\ pc = "fetched" =>
                 /\ to \in unit.blocks
                 /\ \A b \in unit.blocks : b <= to
                 /\ LastBlock(unit) = to

\* a range whose last block has no event of an indexed contract: the block
\* is in the blocks map next to a block with transactions
RangeBlocksCompleteWitness ==
    /\ pc = "fetched"
    /\ unit.kind = "Range"
    /\ unit.transactions # << >>
    /\ \A i \in 1..Len(unit.transactions) :
          unit.transactions[i].block_number
             < Min(latest, FromOfTick + Config.blocks_chunk_size)
    /\ Cardinality(unit.blocks) = Len(unit.transactions) + 1

====
